---- MODULE Spec2Model ----
(***************************************************************************)
(* A model of the streaming engine of emyl (src/emyl.cpp, src/emyl.h):     *)
(* emyl::Stream with its worker thread (Stream::streamData), the decoder   *)
(* binding emyl::Music, the decoded file it reads and the OpenAL voice the *)
(* worker feeds.  One control thread calls the public operations; each     *)
(* operation and the worker are cut into steps at their accesses to shared *)
(* state (the mutex-protected fields, the voice, the file).                *)
(*                                                                         *)
(* Time offsets are counted in ticks of 1/TimeDen second, sizes in samples.*)
(***************************************************************************)
EXTENDS Integers, Sequences, FiniteSets, TLC

\* ------------------------------------------------------------------ bounds

\* enum { BufferCount = 3 } of Stream
BufferCount == 3

\* Sample rate of every file the model opens (samples per second and channel).
SampleRate == 2

\* The longest file the model opens, in samples.
MaxLen == 7

\* The largest argument of setPlayingOffset, in ticks.
MaxOffset == 11

\* How many calls of openFromFile, play, pause, stop and setPlayingOffset one
\* run makes.
MaxCalls == 4

\* Ticks per second: a tick is half a mono sample period.
TimeDen == 2 * SampleRate

\* File lengths: empty, and the two longest (one is a multiple of the read
\* window of a mono file, the other is not).
Lengths == {0, MaxLen - 1, MaxLen}

\* Channel counts of the files the model opens; 3 maps to no format.
ChannelChoices == {1, 3}

TimeOffsets == {0, TimeDen, MaxOffset}

Slots == 0..(BufferCount - 1)

\* Names of OpenAL buffer objects.
BufIds == 0..(BufferCount * MaxCalls - 1)

\* Worker threads: the one m_thread owns and the one a constructor has just
\* started.
Workers == {1, 2}

Min(a, b) == IF a < b THEN a ELSE b

VARIABLES
    m_format,            \* Stream::m_format (0: not initialized)
    m_channelCount,      \* Stream::m_channelCount
    m_sampleRate,        \* Stream::m_sampleRate
    m_loop,              \* Stream::m_loop
    m_samplesProcessed,  \* Stream::m_samplesProcessed
    m_isStreaming,       \* Stream::m_isStreaming
    m_threadStartState,  \* Stream::m_threadStartState
    m_endBuffers,        \* Stream::m_endBuffers[BufferCount]
    m_buffers,           \* Stream::m_buffers[BufferCount]
    m_thread,            \* Stream::m_thread: 0 (not joinable) or a worker
    m_samples,           \* Music::m_samples.size()
    file,                \* Music::m_file: [open, len, pos, channels, rate]
    voice,               \* the OpenAL source: [state, queue, pos]
    alBuf,               \* the OpenAL buffer objects: [live, size, bits], and
                         \* where in the file their samples end (srcEnd)
    thr,                 \* the worker threads' positions and locals
    ctl,                 \* the control thread's position and locals
    crashed,             \* std::terminate was called
    selfEnded,           \* history: the worker ended the stream by itself
                         \* ("End streaming") while no control call was in
                         \* progress, and play() was not called since
    sndObj,              \* the Sound objects: [live, m_buffer]
    bufObj,              \* the Buffer objects: [live, samples, m_sounds]
    soundOp,             \* history: the last Sound or Buffer operation
    resource,            \* s_resourceCount and Device::instance
    s_readers,           \* SoundFileFactory::s_readers
    created,             \* history: the last createReaderFromStream
    wav,                 \* a SoundFileReaderWav parsing a header
    inputFile,           \* an InputSoundFile: its reader, stream and attributes
    concurrent           \* resources constructed and destroyed by two threads

\* The state of the stream, and the state of the rest of the library.
streamVars == << m_format, m_channelCount, m_sampleRate, m_loop,
                 m_samplesProcessed, m_isStreaming, m_threadStartState,
                 m_endBuffers, m_buffers, m_thread, m_samples, file, voice,
                 alBuf, thr, ctl, crashed, selfEnded >>

soundVars == << sndObj, bufObj, soundOp >>

factoryVars == << s_readers, created >>

libVars == << soundVars, resource, factoryVars, wav, inputFile, concurrent >>

vars == << m_format, m_channelCount, m_sampleRate, m_loop, m_samplesProcessed,
           m_isStreaming, m_threadStartState, m_endBuffers, m_buffers,
           m_thread, m_samples, file, voice, alBuf, thr, ctl, crashed,
           selfEnded, libVars >>

\* ---------------------------------------------------------- OpenAL voice

\* AL_FORMAT_MONO16 and AL_FORMAT_STEREO16; the extension formats are looked
\* up by name and are absent (0) on the modelled device.
AL_FORMAT_MONO16 == 4353
AL_FORMAT_STEREO16 == 4355

\* Device::getFormatFromChannelCount
getFormatFromChannelCount(channelCount) ==
    CASE channelCount = 1 -> AL_FORMAT_MONO16
      [] channelCount = 2 -> AL_FORMAT_STEREO16
      [] OTHER -> 0

\* Number of buffers of the queue the voice has finished
\* (AL_BUFFERS_PROCESSED): all of them once stopped, none before the first
\* play.
alProcessed(v) ==
    CASE v.state = "Stopped" -> Len(v.queue)
      [] v.state = "Initial" -> 0
      [] OTHER -> v.pos

\* alSourcePlay: resumes a paused voice; otherwise plays the queue from its
\* start.  With nothing queued the voice goes straight to stopped.
alSourcePlay(v) ==
    IF Len(v.queue) = 0 THEN [v EXCEPT !.state = "Stopped", !.pos = 0]
    ELSE IF v.state = "Paused" THEN [v EXCEPT !.state = "Playing"]
    ELSE [v EXCEPT !.state = "Playing", !.pos = 0]

\* An alSourcePause that leaves the voice as it is.
alSourcePause_Ignored(v) == v

\* alSourcePause: only a playing voice is paused.
alSourcePause(v) ==
    IF v.state = "Playing" THEN [v EXCEPT !.state = "Paused"] ELSE v

\* alSourceStop: a playing or paused voice stops, an initial one stays.
alSourceStop(v) ==
    IF v.state \in {"Playing", "Paused"}
    THEN [v EXCEPT !.state = "Stopped", !.pos = 0]
    ELSE v

\* alSourceUnqueueBuffers(source, 1, &buffer) succeeds when a buffer is
\* processed.
alCanUnqueue(v) == alProcessed(v) > 0

alSourceUnqueueBuffers(v) ==
    IF alCanUnqueue(v)
    THEN [v EXCEPT !.queue = Tail(v.queue),
                   !.pos = IF v.state \in {"Playing", "Paused"}
                           THEN v.pos - 1 ELSE 0]
    ELSE v

\* alSourceQueueBuffers(source, 1, &buffer): a name that is no buffer is
\* refused.
alSourceQueueBuffers(v, b) ==
    IF alBuf[b].live THEN [v EXCEPT !.queue = Append(v.queue, b)] ELSE v

InQueue(v, b) == \E k \in 1..Len(v.queue) : v.queue[k] = b

\* Source::getState: AL_INITIAL and AL_STOPPED both read as Stopped.
SourceGetState(v) ==
    CASE v.state = "Paused" -> "Paused"
      [] v.state = "Playing" -> "Playing"
      [] OTHER -> "Stopped"


\* alSourcei(source, AL_BUFFER, 0): detaches the queue of a voice that is not
\* playing or paused; refused otherwise.
alSourceDetach(v) ==
    IF v.state \in {"Initial", "Stopped"}
    THEN [v EXCEPT !.queue = << >>, !.pos = 0]
    ELSE v

\* The voice after n calls of alSourceUnqueueBuffers(source, 1, &buffer).
RECURSIVE UnqueueN(_, _)
UnqueueN(v, n) ==
    IF n = 0 THEN v ELSE UnqueueN(alSourceUnqueueBuffers(v), n - 1)

\* The playback position inside the queue (AL_SEC_OFFSET) at a buffer
\* boundary, in ticks: the finished buffers that are still queued.
RECURSIVE QueuedSamples(_, _)
QueuedSamples(q, n) ==
    IF n = 0 THEN 0
    ELSE (IF alBuf[q[n]].bits < 8 THEN 0
          ELSE alBuf[q[n]].size \div (alBuf[q[n]].bits \div 8))
         + QueuedSamples(q, n - 1)

alSecOffset(v) ==
    IF v.state \in {"Playing", "Paused"} /\ m_sampleRate * m_channelCount > 0
    THEN (QueuedSamples(v.queue, v.pos) * TimeDen) \div (m_sampleRate * m_channelCount)
    ELSE 0

\* alGenBuffers(BufferCount, m_buffers): the lowest unused names.
FreeBufs == {b \in BufIds : ~alBuf[b].live}

NthFree(k) == CHOOSE b \in FreeBufs : Cardinality({x \in FreeBufs : x < b}) = k

alGenBuffers == [s \in Slots |-> NthFree(s)]

\* alDeleteBuffers(BufferCount, m_buffers): all or nothing; a name that is no
\* buffer or a buffer still queued makes the call fail.
alDeleteBuffers(v, bufs) ==
    IF \A s \in Slots : alBuf[bufs[s]].live /\ ~InQueue(v, bufs[s])
    THEN [b \in BufIds |->
            IF \E s \in Slots : bufs[s] = b
            THEN [live |-> FALSE, size |-> 0, bits |-> 0, srcEnd |-> 0]
            ELSE alBuf[b]]
    ELSE alBuf

\* sizeof(std::int16_t), and the bit depth OpenAL reports for a 16-bit format.
SampleBytes == 2
SampleBits == 16

\* alBufferData(buffer, m_format, data.samples, size, m_sampleRate): refused
\* for a name that is no buffer and for a buffer that is queued on the voice.
\* srcEnd is a history field, not OpenAL's: the file position at which the
\* uploaded samples end.
alBufferData(v, b, size, srcEnd) ==
    IF alBuf[b].live /\ ~InQueue(v, b)
    THEN [alBuf EXCEPT ![b] = [live |-> TRUE, size |-> size,
                               bits |-> SampleBits, srcEnd |-> srcEnd]]
    ELSE alBuf

\* ------------------------------------------------------------ decoded file

\* InputSoundFile::read through SoundFileReaderWav::read: the samples left,
\* at most maxCount.
fileRead(f, maxCount) ==
    IF f.open /\ maxCount > 0 /\ f.pos < f.len
    THEN Min(maxCount, f.len - f.pos)
    ELSE 0

\* InputSoundFile::seek(std::uint64_t)
fileSeek(f, sampleOffset) ==
    IF f.open THEN [f EXCEPT !.pos = sampleOffset] ELSE f

\* InputSoundFile::seek(ALfloat): the time offset truncated to a sample.
fileSeekTime(f, t) == fileSeek(f, (t * f.rate * f.channels) \div TimeDen)

\* Music::onSeek
onSeek(t) == fileSeekTime(file, t)

ClosedFile == [open |-> FALSE, len |-> 0, pos |-> 0, channels |-> 0, rate |-> 0]

\* ------------------------------------------------------------------ state

\* `ALint size, bits;` before alGetBufferi has written them.
BitsNotRead == -1

NoThread ==
    [pc |-> "none", requestStop |-> FALSE, bufferNum |-> 0, nbProcessed |-> 0,
     sampleCount |-> 0, srcEnd |-> 0, fillStop |-> FALSE, inFill |-> FALSE,
     retry |-> FALSE, bits |-> BitsNotRead]

IdleCtl ==
    [pc |-> "idle", op |-> "none", ret |-> "idle", isStreaming |-> FALSE,
     threadStartState |-> "Stopped", oldState |-> "Stopped", timeOffset |-> 0,
     calls |-> 0, branch |-> "none"]

\* Stream::Stream, Music::Music, Source::Source
StreamInit ==
    /\ m_format = 0
    /\ m_channelCount = 0
    /\ m_sampleRate = 0
    /\ m_loop = FALSE
    /\ m_samplesProcessed = 0
    /\ m_isStreaming = FALSE
    /\ m_threadStartState = "Stopped"
    /\ m_endBuffers = [s \in Slots |-> FALSE]
    /\ m_buffers = [s \in Slots |-> 0]
    /\ m_thread = 0
    /\ m_samples = 0
    /\ file = ClosedFile
    /\ voice = [state |-> "Initial", queue |-> << >>, pos |-> 0]
    /\ alBuf = [b \in BufIds |-> [live |-> FALSE, size |-> 0, bits |-> 0, srcEnd |-> 0]]
    /\ thr = [w \in Workers |-> NoThread]
    /\ ctl = IdleCtl
    /\ crashed = FALSE
    /\ selfEnded = FALSE

Alive(w) == thr[w].pc \notin {"none", "done"}

\* A getState that reports the voice's state alone.
getState_VoiceOnly == SourceGetState(voice)

\* Stream::getState, read in one piece.
getState ==
    LET status == SourceGetState(voice) IN
    IF status = "Stopped"
    THEN IF m_isStreaming THEN m_threadStartState ELSE "Stopped"
    ELSE status

\* Stream::getPlayingOffset at a buffer boundary, in ticks.
getPlayingOffset ==
    IF m_sampleRate # 0 /\ m_channelCount # 0
    THEN alSecOffset(voice)
         + (m_samplesProcessed * TimeDen) \div (m_sampleRate * m_channelCount)
    ELSE 0


\* ----------------------------------------------------------- worker thread

\* Stream::streamData, entry: the launched-Stopped guard, alGenBuffers, the
\* end-of-stream flags cleared, and fillQueue entered at slot 0.
StreamDataStart(w) ==
    /\ thr[w].pc = "start"
    /\ IF m_threadStartState = "Stopped"
       THEN /\ m_isStreaming' = FALSE
            /\ thr' = [thr EXCEPT ![w] = [NoThread EXCEPT !.pc = "done"]]
            /\ UNCHANGED << m_buffers, m_endBuffers, alBuf >>
       ELSE /\ m_buffers' = alGenBuffers
            /\ alBuf' = [b \in BufIds |->
                           IF \E s \in Slots : alGenBuffers[s] = b
                           THEN [live |-> TRUE, size |-> 0, bits |-> 0, srcEnd |-> 0]
                           ELSE alBuf[b]]
            /\ m_endBuffers' = [s \in Slots |-> FALSE]
            /\ thr' = [thr EXCEPT ![w] = [NoThread EXCEPT !.pc = "getdata",
                                                           !.inFill = TRUE]]
            /\ UNCHANGED m_isStreaming
    /\ UNCHANGED << m_format, m_channelCount, m_sampleRate, m_loop,
                    m_samplesProcessed, m_threadStartState, m_thread,
                    m_samples, file, voice, ctl, crashed,
                    selfEnded, libVars >>

\* Stream::fillAndPushBuffer, first half: Music::onGetData, the end-of-stream
\* flag, the loop seek and the retry of the same slot (the recursive call), or
\* the stop request.  retry is the parity of the depth of the recursion.
FillGetData(w) ==
    /\ thr[w].pc = "getdata"
    /\ LET n    == fileRead(file, m_samples)
           read == [file EXCEPT !.pos = file.pos + n]
           num  == thr[w].bufferNum
       IN
       IF n = m_samples
       THEN /\ file' = read
            /\ thr' = [thr EXCEPT ![w].pc = "push", ![w].sampleCount = n,
                                  ![w].srcEnd = read.pos,
                                  ![w].fillStop = FALSE]
            /\ UNCHANGED m_endBuffers
       ELSE /\ m_endBuffers' = [m_endBuffers EXCEPT ![num] = TRUE]
            /\ IF m_loop
               THEN /\ file' = fileSeekTime(read, 0)
                    /\ IF n = 0
                       THEN thr' = [thr EXCEPT ![w].sampleCount = 0,
                                               ![w].fillStop = FALSE,
                                               ![w].retry = ~thr[w].retry]
                       ELSE thr' = [thr EXCEPT ![w].pc = "push",
                                               ![w].sampleCount = n,
                                               ![w].srcEnd = read.pos,
                                               ![w].fillStop = FALSE]
               ELSE /\ file' = read
                    /\ thr' = [thr EXCEPT ![w].pc = "push",
                                          ![w].sampleCount = n,
                                          ![w].srcEnd = read.pos,
                                          ![w].fillStop = TRUE]
    /\ UNCHANGED << m_format, m_channelCount, m_sampleRate, m_loop,
                    m_samplesProcessed, m_isStreaming, m_threadStartState,
                    m_buffers, m_thread, m_samples, voice, alBuf, ctl,
                    crashed,
                    selfEnded, libVars >>

\* Where fillAndPushBuffer returns to: the next slot of fillQueue (or the end
\* of fillQueue), or the dequeue loop of streamData.
AfterFill(t) ==
    IF t.inFill
    THEN IF t.bufferNum + 1 < BufferCount /\ ~t.fillStop
         THEN [t EXCEPT !.pc = "getdata", !.bufferNum = t.bufferNum + 1,
                        !.requestStop = FALSE, !.sampleCount = 0,
                        !.srcEnd = 0, !.fillStop = FALSE, !.retry = FALSE]
         ELSE [t EXCEPT !.pc = "alplay", !.bufferNum = 0, !.inFill = FALSE,
                        !.requestStop = t.fillStop, !.sampleCount = 0,
                        !.srcEnd = 0, !.fillStop = FALSE, !.retry = FALSE]
    ELSE [t EXCEPT !.pc = IF t.nbProcessed > 0 THEN "dequeue" ELSE "looptop",
                   !.requestStop = t.requestStop \/ t.fillStop,
                   !.bufferNum = 0, !.sampleCount = 0, !.srcEnd = 0,
                   !.fillStop = FALSE, !.retry = FALSE]

\* Stream::fillAndPushBuffer: "if (data.samples && data.sampleCount)".
SomeData_Always(t) == TRUE

SomeData(t) == t.sampleCount > 0

\* Stream::fillAndPushBuffer, second half: the samples are uploaded to the
\* slot's buffer and the buffer is queued, when some data was returned.
FillPush(w) ==
    /\ thr[w].pc = "push"
    /\ LET b == m_buffers[thr[w].bufferNum] IN
       IF SomeData(thr[w])
       THEN /\ alBuf' = alBufferData(voice, b, thr[w].sampleCount * SampleBytes,
                                 thr[w].srcEnd)
            /\ voice' = alSourceQueueBuffers(voice, b)
       ELSE UNCHANGED << alBuf, voice >>
    /\ thr' = [thr EXCEPT ![w] = AfterFill(thr[w])]
    /\ UNCHANGED << m_format, m_channelCount, m_sampleRate, m_loop,
                    m_samplesProcessed, m_isStreaming, m_threadStartState,
                    m_endBuffers, m_buffers, m_thread, m_samples, file, ctl,
                    crashed,
                    selfEnded, libVars >>

\* Stream::streamData: alSourcePlay after the fill phase.
StreamDataPlay(w) ==
    /\ thr[w].pc = "alplay"
    /\ voice' = alSourcePlay(voice)
    /\ thr' = [thr EXCEPT ![w].pc = "pausechk"]
    /\ UNCHANGED << m_format, m_channelCount, m_sampleRate, m_loop,
                    m_samplesProcessed, m_isStreaming, m_threadStartState,
                    m_endBuffers, m_buffers, m_thread, m_samples, file, alBuf,
                    ctl, crashed,
                    selfEnded, libVars >>

\* Stream::streamData: the launched-Paused check, under the mutex.
StreamDataPauseCheck(w) ==
    /\ thr[w].pc = "pausechk"
    /\ voice' = IF m_threadStartState = "Paused"
                THEN alSourcePause(voice) ELSE voice
    /\ thr' = [thr EXCEPT ![w].pc = "looptop"]
    /\ UNCHANGED << m_format, m_channelCount, m_sampleRate, m_loop,
                    m_samplesProcessed, m_isStreaming, m_threadStartState,
                    m_endBuffers, m_buffers, m_thread, m_samples, file, alBuf,
                    ctl, crashed,
                    selfEnded, libVars >>

\* A loop that is left whatever m_isStreaming holds.
StreamDataLoopTop_Leaves(w) ==
    /\ thr[w].pc = "looptop"
    /\ thr' = [thr EXCEPT ![w].pc = "stopvoice"]
    /\ UNCHANGED << m_format, m_channelCount, m_sampleRate, m_loop,
                    m_samplesProcessed, m_isStreaming, m_threadStartState,
                    m_endBuffers, m_buffers, m_thread, m_samples, file, voice,
                    alBuf, ctl, crashed, selfEnded, libVars >>

\* Stream::streamData: the top of the main loop reads m_isStreaming under the
\* mutex.
StreamDataLoopTop(w) ==
    /\ thr[w].pc = "looptop"
    /\ thr' = [thr EXCEPT ![w].pc = IF m_isStreaming THEN "chkstate"
                                    ELSE "stopvoice"]
    /\ UNCHANGED << m_format, m_channelCount, m_sampleRate, m_loop,
                    m_samplesProcessed, m_isStreaming, m_threadStartState,
                    m_endBuffers, m_buffers, m_thread, m_samples, file, voice,
                    alBuf, ctl, crashed,
                    selfEnded, libVars >>

\* An interrupted stream that is ended whether or not a stop is pending.
StreamDataCheckState_EndsOnUnderrun(w) ==
    /\ thr[w].pc = "chkstate"
    /\ thr' = [thr EXCEPT ![w].pc =
                 IF SourceGetState(voice) = "Stopped" THEN "endstream"
                 ELSE "nproc"]
    /\ UNCHANGED << m_format, m_channelCount, m_sampleRate, m_loop,
                    m_samplesProcessed, m_isStreaming, m_threadStartState,
                    m_endBuffers, m_buffers, m_thread, m_samples, file, voice,
                    alBuf, ctl, crashed, selfEnded, libVars >>

\* Stream::streamData: "The stream has been interrupted!" reads the voice's
\* state.
StreamDataCheckState(w) ==
    /\ thr[w].pc = "chkstate"
    /\ thr' = [thr EXCEPT ![w].pc =
                 IF SourceGetState(voice) = "Stopped"
                 THEN IF thr[w].requestStop THEN "endstream" ELSE "restart"
                 ELSE "nproc"]
    /\ UNCHANGED << m_format, m_channelCount, m_sampleRate, m_loop,
                    m_samplesProcessed, m_isStreaming, m_threadStartState,
                    m_endBuffers, m_buffers, m_thread, m_samples, file, voice,
                    alBuf, ctl, crashed,
                    selfEnded, libVars >>

\* An interrupted stream that is left stopped.
StreamDataRestart_Skipped(w) ==
    /\ thr[w].pc = "restart"
    /\ thr' = [thr EXCEPT ![w].pc = "nproc"]
    /\ UNCHANGED << m_format, m_channelCount, m_sampleRate, m_loop,
                    m_samplesProcessed, m_isStreaming, m_threadStartState,
                    m_endBuffers, m_buffers, m_thread, m_samples, file, voice,
                    alBuf, ctl, crashed, selfEnded, libVars >>

\* Stream::streamData: "Just continue", the voice is played again.
StreamDataRestart(w) ==
    /\ thr[w].pc = "restart"
    /\ voice' = alSourcePlay(voice)
    /\ thr' = [thr EXCEPT ![w].pc = "nproc"]
    /\ UNCHANGED << m_format, m_channelCount, m_sampleRate, m_loop,
                    m_samplesProcessed, m_isStreaming, m_threadStartState,
                    m_endBuffers, m_buffers, m_thread, m_samples, file, alBuf,
                    ctl, crashed,
                    selfEnded, libVars >>

\* "End streaming" without the write of m_isStreaming.
StreamDataEnd_KeepsStreaming(w) ==
    /\ thr[w].pc = "endstream"
    /\ thr' = [thr EXCEPT ![w].pc = "nproc"]
    /\ UNCHANGED << m_format, m_channelCount, m_sampleRate, m_loop,
                    m_samplesProcessed, m_isStreaming, m_threadStartState,
                    m_endBuffers, m_buffers, m_thread, m_samples, file, voice,
                    alBuf, ctl, crashed, selfEnded, libVars >>

\* Stream::streamData: "End streaming", m_isStreaming is cleared under the
\* mutex.
StreamDataEnd(w) ==
    /\ thr[w].pc = "endstream"
    /\ m_isStreaming' = FALSE
    /\ thr' = [thr EXCEPT ![w].pc = "nproc"]
    /\ selfEnded' = (ctl.pc = "idle")
    /\ UNCHANGED << m_format, m_channelCount, m_sampleRate, m_loop,
                    m_samplesProcessed, m_threadStartState, m_endBuffers,
                    m_buffers, m_thread, m_samples, file, voice, alBuf, ctl,
                    crashed, libVars >>

\* Stream::streamData: AL_BUFFERS_PROCESSED is read.
StreamDataProcessed(w) ==
    /\ thr[w].pc = "nproc"
    /\ thr' = [thr EXCEPT ![w].nbProcessed = alProcessed(voice),
                          ![w].pc = IF alProcessed(voice) > 0 THEN "dequeue"
                                    ELSE "looptop"]
    /\ UNCHANGED << m_format, m_channelCount, m_sampleRate, m_loop,
                    m_samplesProcessed, m_isStreaming, m_threadStartState,
                    m_endBuffers, m_buffers, m_thread, m_samples, file, voice,
                    alBuf, ctl, crashed,
                    selfEnded, libVars >>


\* "Find its number": the slot whose buffer was unqueued, slot 0 when none is.
FindBufferNum(buffer) ==
    IF \E s \in Slots : m_buffers[s] = buffer
    THEN CHOOSE s \in Slots :
            /\ m_buffers[s] = buffer
            /\ \A r \in Slots : m_buffers[r] = buffer => s <= r
    ELSE 0

\* What one pass of the dequeue loop reads: the slot of the unqueued buffer
\* and its AL_SIZE and AL_BITS.  When alSourceUnqueueBuffers fails, `buffer`,
\* and with a name that is no buffer `size` and `bits`, are read
\* uninitialized: any slot, with that slot's buffer or with a zero bit depth.
DequeueReads(v) ==
    IF alCanUnqueue(v)
    THEN {[bufferNum |-> FindBufferNum(Head(v.queue)),
           size |-> alBuf[Head(v.queue)].size,
           bits |-> alBuf[Head(v.queue)].bits]}
    ELSE {[bufferNum |-> s, size |-> alBuf[m_buffers[s]].size,
           bits |-> alBuf[m_buffers[s]].bits] : s \in Slots}
         \cup {[bufferNum |-> 0, size |-> 0, bits |-> 0]}

\* The sample count added for a processed buffer: size / (bits / 8).
SamplesOf(size, bits) == size \div (bits \div 8)

\* The position counter after a buffer was unqueued: reset when the slot is
\* flagged as the end of the stream, advanced by the buffer's samples
\* otherwise.
CountProcessed(rd) ==
    IF m_endBuffers[rd.bufferNum] THEN 0
    ELSE m_samplesProcessed + SamplesOf(rd.size, rd.bits)

\* A pending stop that setLoop(true) takes back.
AfterCount_LoopRevives(t, num) ==
    IF t.requestStop /\ ~m_loop
    THEN [t EXCEPT !.nbProcessed = t.nbProcessed - 1,
                   !.pc = IF t.nbProcessed > 1 THEN "dequeue" ELSE "looptop"]
    ELSE [t EXCEPT !.nbProcessed = t.nbProcessed - 1, !.pc = "getdata",
                   !.bufferNum = num, !.requestStop = FALSE]

\* After the count: fillAndPushBuffer for the slot unless a stop is pending,
\* then the next pass of the loop.
AfterCount(t, num) ==
    IF t.requestStop
    THEN [t EXCEPT !.nbProcessed = t.nbProcessed - 1,
                   !.pc = IF t.nbProcessed > 1 THEN "dequeue" ELSE "looptop"]
    ELSE [t EXCEPT !.nbProcessed = t.nbProcessed - 1, !.pc = "getdata",
                   !.bufferNum = num]

\* An abort that sets no pending stop.
AbortStreaming_NoStop(t) ==
    [t EXCEPT !.nbProcessed = 0, !.pc = "looptop", !.bits = 0]

\* "Abort streaming (exit main loop)": the pending stop and the break out of
\* the dequeue loop.
AbortStreaming(t) ==
    [t EXCEPT !.requestStop = TRUE, !.nbProcessed = 0, !.pc = "looptop",
              !.bits = 0]

\* Stream::streamData: one pass of `while (nbProcessed--)` up to the call of
\* fillAndPushBuffer.  bits keeps the AL_BITS the pass has read.
StreamDataDequeue(w) ==
    /\ thr[w].pc = "dequeue"
    /\ \E rd \in DequeueReads(voice) :
          /\ voice' = alSourceUnqueueBuffers(voice)
          /\ IF m_endBuffers[rd.bufferNum]
             THEN /\ m_samplesProcessed' = CountProcessed(rd)
                  /\ m_endBuffers' = [m_endBuffers EXCEPT ![rd.bufferNum] = FALSE]
                  /\ UNCHANGED m_isStreaming
                  /\ thr' = [thr EXCEPT ![w] =
                               [AfterCount(thr[w], rd.bufferNum)
                                   EXCEPT !.bits = BitsNotRead]]
             ELSE IF rd.bits = 0
             THEN \* "Abort streaming (exit main loop)"
                  /\ m_isStreaming' = FALSE
                  /\ thr' = [thr EXCEPT ![w] = AbortStreaming(thr[w])]
                  /\ UNCHANGED << m_samplesProcessed, m_endBuffers >>
             ELSE /\ m_samplesProcessed' = CountProcessed(rd)
                  /\ UNCHANGED << m_endBuffers, m_isStreaming >>
                  /\ thr' = [thr EXCEPT ![w] =
                               [AfterCount(thr[w], rd.bufferNum)
                                   EXCEPT !.bits = rd.bits]]
    /\ UNCHANGED << m_format, m_channelCount, m_sampleRate, m_loop,
                    m_threadStartState, m_buffers, m_thread, m_samples, file,
                    alBuf, ctl, crashed,
                    selfEnded, libVars >>

\* Leaving the loop without alSourceStop.
StreamDataStopVoice_Skipped(w) ==
    /\ thr[w].pc = "stopvoice"
    /\ thr' = [thr EXCEPT ![w].pc = "clearqueue"]
    /\ UNCHANGED << m_format, m_channelCount, m_sampleRate, m_loop,
                    m_samplesProcessed, m_isStreaming, m_threadStartState,
                    m_endBuffers, m_buffers, m_thread, m_samples, file, voice,
                    alBuf, ctl, crashed, selfEnded, libVars >>

\* Stream::streamData, leaving the loop: alSourceStop.
StreamDataStopVoice(w) ==
    /\ thr[w].pc = "stopvoice"
    /\ voice' = alSourceStop(voice)
    /\ thr' = [thr EXCEPT ![w].pc = "clearqueue"]
    /\ UNCHANGED << m_format, m_channelCount, m_sampleRate, m_loop,
                    m_samplesProcessed, m_isStreaming, m_threadStartState,
                    m_endBuffers, m_buffers, m_thread, m_samples, file, alBuf,
                    ctl, crashed,
                    selfEnded, libVars >>

\* Stream::clearQueue: AL_BUFFERS_QUEUED buffers are unqueued.
clearQueue(v) == UnqueueN(v, Len(v.queue))

StreamDataClearQueue(w) ==
    /\ thr[w].pc = "clearqueue"
    /\ voice' = clearQueue(voice)
    /\ thr' = [thr EXCEPT ![w].pc = "release"]
    /\ UNCHANGED << m_format, m_channelCount, m_sampleRate, m_loop,
                    m_samplesProcessed, m_isStreaming, m_threadStartState,
                    m_endBuffers, m_buffers, m_thread, m_samples, file, alBuf,
                    ctl, crashed,
                    selfEnded, libVars >>

\* Stream::streamData, the end: the buffers are detached from the voice and
\* deleted, and the thread ends (it stays joinable).
StreamDataRelease(w) ==
    /\ thr[w].pc = "release"
    /\ voice' = alSourceDetach(voice)
    /\ alBuf' = alDeleteBuffers(alSourceDetach(voice), m_buffers)
    /\ thr' = [thr EXCEPT ![w] = [NoThread EXCEPT !.pc = "done",
                                                   !.bits = thr[w].bits]]
    /\ UNCHANGED << m_format, m_channelCount, m_sampleRate, m_loop,
                    m_samplesProcessed, m_isStreaming, m_threadStartState,
                    m_endBuffers, m_buffers, m_thread, m_samples, file, ctl,
                    crashed,
                    selfEnded, libVars >>

\* One step of worker w.
WorkerStep(w) ==
    \/ StreamDataStart(w)
    \/ FillGetData(w)
    \/ FillPush(w)
    \/ StreamDataPlay(w)
    \/ StreamDataPauseCheck(w)
    \/ StreamDataLoopTop(w)
    \/ StreamDataCheckState(w)
    \/ StreamDataRestart(w)
    \/ StreamDataEnd(w)
    \/ StreamDataProcessed(w)
    \/ StreamDataDequeue(w)
    \/ StreamDataStopVoice(w)
    \/ StreamDataClearQueue(w)
    \/ StreamDataRelease(w)

\* The voice finishes the buffer it is playing; after the last queued buffer
\* it stops.
VoiceFinishBuffer ==
    /\ voice.state = "Playing"
    /\ voice' = IF voice.pos + 1 >= Len(voice.queue)
                THEN [voice EXCEPT !.state = "Stopped", !.pos = 0]
                ELSE [voice EXCEPT !.pos = voice.pos + 1]
    /\ UNCHANGED << m_format, m_channelCount, m_sampleRate, m_loop,
                    m_samplesProcessed, m_isStreaming, m_threadStartState,
                    m_endBuffers, m_buffers, m_thread, m_samples, file, alBuf,
                    thr, ctl, crashed,
                    selfEnded, libVars >>


\* ----------------------------------------------------------- control thread

\* The control thread back in its caller: the operation's locals are gone.
Returned(c) ==
    [IdleCtl EXCEPT !.op = c.op, !.calls = c.calls, !.branch = c.branch]

Calling ==
    /\ ~crashed
    /\ ctl.pc = "idle"
    /\ ctl.calls < MaxCalls

\* A play() without the check of the sound parameters.
NotInitialized_Never == FALSE

\* Stream::play: "Check if the sound parameters have been set".
NotInitialized == m_format = 0

\* Stream::play, entry: the format check and the read of m_isStreaming and
\* m_threadStartState under the mutex.
Play ==
    /\ Calling
    /\ ctl' = IF NotInitialized
              THEN [ctl EXCEPT !.op = "play", !.calls = @ + 1,
                               !.branch = "noop"]
              ELSE [ctl EXCEPT !.op = "play", !.calls = @ + 1,
                               !.branch = "none",
                               !.pc = "play_branch",
                               !.isStreaming = m_isStreaming,
                               !.threadStartState = m_threadStartState]
    /\ selfEnded' = FALSE
    /\ UNCHANGED << m_format, m_channelCount, m_sampleRate, m_loop,
                    m_samplesProcessed, m_isStreaming, m_threadStartState,
                    m_endBuffers, m_buffers, m_thread, m_samples, file, voice,
                    alBuf, thr, crashed, libVars >>

\* A play() without the resume branch, and one without the restart branch.
PlayResumes_Never == FALSE

PlayRestarts_Never == FALSE

\* Stream::play: "If the sound is paused, resume it".
PlayResumes == ctl.isStreaming /\ ctl.threadStartState = "Paused"

\* Stream::play: "If the sound is playing, stop it and continue as if it was
\* stopped".
PlayRestarts == ctl.isStreaming /\ ctl.threadStartState = "Playing"

\* Stream::play, "Move to the beginning" and "Start updating the stream":
\* the writes before the thread is constructed.
FreshStart ==
    /\ file' = onSeek(0)
    /\ m_samplesProcessed' = 0
    /\ m_isStreaming' = TRUE
    /\ m_threadStartState' = "Playing"

\* Stream::play after the read: resume in place, or the signal of stop(), or
\* the fresh start.
PlayBranch ==
    /\ ~crashed
    /\ ctl.pc = "play_branch"
    /\ IF PlayResumes
       THEN /\ m_threadStartState' = "Playing"
            /\ voice' = alSourcePlay(voice)
            /\ ctl' = Returned([ctl EXCEPT !.branch = "resume"])
            /\ UNCHANGED << m_isStreaming, m_samplesProcessed, file >>
       ELSE IF PlayRestarts
       THEN /\ m_isStreaming' = FALSE
            /\ ctl' = [Returned(ctl) EXCEPT !.pc = "stop_join",
                                            !.ret = "play_fresh",
                                            !.branch = "restart"]
            /\ UNCHANGED << m_threadStartState, m_samplesProcessed, file, voice >>
       ELSE /\ FreshStart
            /\ ctl' = [Returned(ctl) EXCEPT !.pc = "launch",
                                            !.branch = "fresh"]
            /\ UNCHANGED voice
    /\ UNCHANGED << m_format, m_channelCount, m_sampleRate, m_loop,
                    m_endBuffers, m_buffers, m_thread, m_samples, alBuf, thr,
                    crashed,
                    selfEnded, libVars >>

\* Stream::play after its stop() returned.
PlayFresh ==
    /\ ~crashed
    /\ ctl.pc = "play_fresh"
    /\ FreshStart
    /\ ctl' = [ctl EXCEPT !.pc = "launch"]
    /\ UNCHANGED << m_format, m_channelCount, m_sampleRate, m_loop,
                    m_endBuffers, m_buffers, m_thread, m_samples, voice,
                    alBuf, thr, crashed,
                    selfEnded, libVars >>

\* std::thread(&Stream::streamData, this): a new thread runs streamData.
NewWorker == CHOOSE w \in Workers : thr[w].pc = "none" /\ w # m_thread

\* A thread handle that never reads as joinable.
Joinable_Never == FALSE

\* m_thread.joinable()
Joinable == m_thread # 0

\* m_thread = std::thread(&Stream::streamData, this): the new thread is
\* started, then the move assignment either takes it or, when m_thread is
\* still joinable, calls std::terminate and the process ends with both
\* threads in it.
Launch ==
    /\ ~crashed
    /\ ctl.pc = "launch"
    /\ thr' = [thr EXCEPT ![NewWorker] = [NoThread EXCEPT !.pc = "start"]]
    /\ IF Joinable
       THEN /\ crashed' = TRUE
            /\ UNCHANGED << m_thread, ctl >>
       ELSE /\ m_thread' = NewWorker
            /\ ctl' = Returned(ctl)
            /\ UNCHANGED crashed
    /\ UNCHANGED << m_format, m_channelCount, m_sampleRate, m_loop,
                    m_samplesProcessed, m_isStreaming, m_threadStartState,
                    m_endBuffers, m_buffers, m_samples, file, voice, alBuf,
                    selfEnded, libVars >>

\* Stream::pause, under the mutex.
Pause ==
    /\ Calling
    /\ IF m_isStreaming
       THEN /\ m_threadStartState' = "Paused"
            /\ ctl' = [ctl EXCEPT !.op = "pause", !.calls = @ + 1,
                          !.branch = "none",
                                  !.pc = "pause_al"]
       ELSE /\ ctl' = [ctl EXCEPT !.op = "pause", !.calls = @ + 1,
                          !.branch = "none"]
            /\ UNCHANGED m_threadStartState
    /\ UNCHANGED << m_format, m_channelCount, m_sampleRate, m_loop,
                    m_samplesProcessed, m_isStreaming, m_endBuffers, m_buffers,
                    m_thread, m_samples, file, voice, alBuf, thr, crashed,
                    selfEnded, libVars >>

\* Stream::pause: alSourcePause, after the mutex is released.
PauseVoice ==
    /\ ~crashed
    /\ ctl.pc = "pause_al"
    /\ voice' = alSourcePause(voice)
    /\ ctl' = Returned(ctl)
    /\ UNCHANGED << m_format, m_channelCount, m_sampleRate, m_loop,
                    m_samplesProcessed, m_isStreaming, m_threadStartState,
                    m_endBuffers, m_buffers, m_thread, m_samples, file, alBuf,
                    thr, crashed,
                    selfEnded, libVars >>

\* A stop() that flips the streaming flag instead of clearing it.
Stop_FlipsStreaming ==
    /\ Calling
    /\ m_isStreaming' = ~m_isStreaming
    /\ ctl' = [ctl EXCEPT !.op = "stop", !.calls = @ + 1,
                          !.branch = "none", !.pc = "stop_join",
                          !.ret = "idle"]
    /\ UNCHANGED << m_format, m_channelCount, m_sampleRate, m_loop,
                    m_samplesProcessed, m_threadStartState, m_endBuffers,
                    m_buffers, m_thread, m_samples, file, voice, alBuf, thr,
                    crashed, selfEnded, libVars >>

\* Stream::stop, "Request the thread to terminate".
Stop ==
    /\ Calling
    /\ m_isStreaming' = FALSE
    /\ ctl' = [ctl EXCEPT !.op = "stop", !.calls = @ + 1,
                          !.branch = "none", !.pc = "stop_join",
                          !.ret = "idle"]
    /\ UNCHANGED << m_format, m_channelCount, m_sampleRate, m_loop,
                    m_samplesProcessed, m_threadStartState, m_endBuffers,
                    m_buffers, m_thread, m_samples, file, voice, alBuf, thr,
                    crashed,
                    selfEnded, libVars >>

\* A join that does not wait for the thread.
JoinReturns_NoWait == TRUE

\* m_thread.join() returns when the thread has ended.
JoinReturns == IF Joinable THEN thr[m_thread].pc = "done" ELSE TRUE

\* Stream::stop, "Wait for the thread to terminate", "Move to the beginning"
\* and "Reset the playing position".
StopJoin ==
    /\ ~crashed
    /\ ctl.pc = "stop_join"
    /\ JoinReturns
    /\ thr' = IF Joinable THEN [thr EXCEPT ![m_thread] = NoThread] ELSE thr
    /\ m_thread' = 0
    /\ file' = onSeek(0)
    /\ m_samplesProcessed' = 0
    /\ ctl' = IF ctl.ret = "idle" THEN Returned(ctl)
              ELSE [ctl EXCEPT !.pc = ctl.ret, !.ret = "idle"]
    /\ UNCHANGED << m_format, m_channelCount, m_sampleRate, m_loop,
                    m_isStreaming, m_threadStartState, m_endBuffers, m_buffers,
                    m_samples, voice, alBuf, crashed,
                    selfEnded, libVars >>


\* Stream::setPlayingOffset, "Get old playing status": Source::getState.
SetPlayingOffset(timeOffset) ==
    /\ Calling
    /\ ctl' = [ctl EXCEPT !.op = "setPlayingOffset", !.calls = @ + 1,
                          !.branch = "none",
                          !.pc = "seek_state", !.timeOffset = timeOffset,
                          !.oldState = SourceGetState(voice)]
    /\ UNCHANGED << m_format, m_channelCount, m_sampleRate, m_loop,
                    m_samplesProcessed, m_isStreaming, m_threadStartState,
                    m_endBuffers, m_buffers, m_thread, m_samples, file, voice,
                    alBuf, thr, crashed,
                    selfEnded, libVars >>

\* A state read under the mutex that always gives Stopped.
StateUnderLock_Stopped(status) == "Stopped"

\* Stream::getState, the part under the mutex, for the status the voice gave.
StateUnderLock(status) ==
    IF status = "Stopped"
    THEN IF m_isStreaming THEN m_threadStartState ELSE "Stopped"
    ELSE status

\* Stream::setPlayingOffset: the rest of getState, then the signal of stop().
SeekStop ==
    /\ ~crashed
    /\ ctl.pc = "seek_state"
    /\ m_isStreaming' = FALSE
    /\ ctl' = [ctl EXCEPT !.oldState = StateUnderLock(ctl.oldState),
                          !.pc = "stop_join", !.ret = "seek_after"]
    /\ UNCHANGED << m_format, m_channelCount, m_sampleRate, m_loop,
                    m_samplesProcessed, m_threadStartState, m_endBuffers,
                    m_buffers, m_thread, m_samples, file, voice, alBuf, thr,
                    crashed,
                    selfEnded, libVars >>

\* A seek that leaves the position counter at 0.
OffsetSamples_Zero(timeOffset) == 0

\* static_cast<std::uint64_t>(timeOffset * m_sampleRate * m_channelCount)
OffsetSamples(timeOffset) ==
    (timeOffset * m_sampleRate * m_channelCount) \div TimeDen

\* A setPlayingOffset that restarts the worker whatever the old state was.
SeekAfter_AlwaysRestarts ==
    /\ ~crashed
    /\ ctl.pc = "seek_after"
    /\ file' = onSeek(ctl.timeOffset)
    /\ m_samplesProcessed' = OffsetSamples(ctl.timeOffset)
    /\ m_isStreaming' = TRUE
    /\ m_threadStartState' = ctl.oldState
    /\ ctl' = [Returned(ctl) EXCEPT !.pc = "launch",
                                    !.timeOffset = ctl.timeOffset]
    /\ UNCHANGED << m_format, m_channelCount, m_sampleRate, m_loop,
                    m_endBuffers, m_buffers, m_thread, m_samples, voice,
                    alBuf, thr, crashed, selfEnded, libVars >>

\* Stream::setPlayingOffset after stop(): onSeek, the position counter, and
\* the restart in the old state unless it was Stopped.
SeekAfter ==
    /\ ~crashed
    /\ ctl.pc = "seek_after"
    /\ file' = onSeek(ctl.timeOffset)
    /\ m_samplesProcessed' = OffsetSamples(ctl.timeOffset)
    /\ IF ctl.oldState = "Stopped"
       THEN /\ ctl' = Returned(ctl)
            /\ UNCHANGED << m_isStreaming, m_threadStartState >>
       ELSE /\ m_isStreaming' = TRUE
            /\ m_threadStartState' = ctl.oldState
            /\ ctl' = [Returned(ctl) EXCEPT !.pc = "launch",
                                            !.timeOffset = ctl.timeOffset]
    /\ UNCHANGED << m_format, m_channelCount, m_sampleRate, m_loop,
                    m_endBuffers, m_buffers, m_thread, m_samples, voice,
                    alBuf, thr, crashed,
                    selfEnded, libVars >>

\* Stream::setLoop
SetLoop(loop) ==
    /\ ~crashed
    /\ ctl.pc = "idle"
    /\ loop # m_loop
    /\ m_loop' = loop
    /\ UNCHANGED << m_format, m_channelCount, m_sampleRate,
                    m_samplesProcessed, m_isStreaming, m_threadStartState,
                    m_endBuffers, m_buffers, m_thread, m_samples, file, voice,
                    alBuf, thr, ctl, crashed,
                    selfEnded, libVars >>

\* Music::openFromFile, "First stop the music if it was already running":
\* the signal of stop().
OpenFromFile ==
    /\ Calling
    /\ m_isStreaming' = FALSE
    /\ ctl' = [ctl EXCEPT !.op = "openFromFile", !.calls = @ + 1,
                          !.branch = "none",
                          !.pc = "stop_join",
                          !.ret = "open_file"]
    /\ UNCHANGED << m_format, m_channelCount, m_sampleRate, m_loop,
                    m_samplesProcessed, m_threadStartState, m_endBuffers,
                    m_buffers, m_thread, m_samples, file, voice, alBuf, thr,
                    crashed,
                    selfEnded, libVars >>

\* Stream::initialize
Initialized(channelCount, sampleRate) ==
    IF getFormatFromChannelCount(channelCount) = 0
    THEN [format |-> 0, channelCount |-> 0, sampleRate |-> 0]
    ELSE [format |-> getFormatFromChannelCount(channelCount),
          channelCount |-> channelCount, sampleRate |-> sampleRate]

\* Music::openFromFile after stop(): InputSoundFile::openFromFile finds a file
\* of len samples and the given channel count, then Music::initialize sizes
\* the sample buffer to one second and initializes the stream.
OpenFile(len, channelCount) ==
    /\ ~crashed
    /\ ctl.pc = "open_file"
    /\ file' = [open |-> TRUE, len |-> len, pos |-> 0,
                channels |-> channelCount, rate |-> SampleRate]
    /\ m_samples' = SampleRate * channelCount
    /\ m_format' = Initialized(channelCount, SampleRate).format
    /\ m_channelCount' = Initialized(channelCount, SampleRate).channelCount
    /\ m_sampleRate' = Initialized(channelCount, SampleRate).sampleRate
    /\ ctl' = Returned(ctl)
    /\ UNCHANGED << m_loop, m_samplesProcessed, m_isStreaming,
                    m_threadStartState, m_endBuffers, m_buffers, m_thread,
                    voice, alBuf, thr, crashed,
                    selfEnded, libVars >>

\* ----------------------------------------------------------------- Resource

\* No resource was ever constructed: s_resourceCount(0), no Device.  tornDown
\* is history: a Device was deleted before.
NoResource == [count |-> 0, instance |-> FALSE, tornDown |-> FALSE]

\* A ~Resource that compares the count before the decrement.
ResourceDestructor_PostDecrement(rc) ==
    IF rc.count = 0
    THEN [rc EXCEPT !.count = rc.count - 1, !.instance = FALSE,
                    !.tornDown = @ \/ rc.instance]
    ELSE [rc EXCEPT !.count = rc.count - 1]

\* Resource::Resource: currentCount = s_resourceCount++, and the Device is
\* created when currentCount is 0.
ResourceConstructor(rc) ==
    IF rc.count = 0
    THEN [rc EXCEPT !.count = rc.count + 1, !.instance = TRUE]
    ELSE [rc EXCEPT !.count = rc.count + 1]

\* Resource::~Resource: currentCount = --s_resourceCount, and the Device is
\* deleted when currentCount is 0.
ResourceDestructor(rc) ==
    IF rc.count - 1 = 0
    THEN [rc EXCEPT !.count = rc.count - 1, !.instance = FALSE,
                    !.tornDown = @ \/ rc.instance]
    ELSE [rc EXCEPT !.count = rc.count - 1]

\* Music::~Music, "We must stop before destroying the file": the signal of
\* stop().
DestroyMusic ==
    /\ Calling
    /\ m_isStreaming' = FALSE
    /\ ctl' = [ctl EXCEPT !.op = "~Music", !.calls = @ + 1,
                          !.branch = "none",
                          !.pc = "stop_join",
                          !.ret = "destroy_file"]
    /\ UNCHANGED << m_format, m_channelCount, m_sampleRate, m_loop,
                    m_samplesProcessed, m_threadStartState, m_endBuffers,
                    m_buffers, m_thread, m_samples, file, voice, alBuf, thr,
                    crashed,
                    selfEnded, libVars >>

\* The member m_file is destroyed after the body of Music::~Music:
\* InputSoundFile::~InputSoundFile closes the file.
DestroyFile ==
    /\ ~crashed
    /\ ctl.pc = "destroy_file"
    /\ file' = ClosedFile
    /\ ctl' = [ctl EXCEPT !.pc = "destroy_stream", !.ret = "idle"]
    /\ UNCHANGED << m_format, m_channelCount, m_sampleRate, m_loop,
                    m_samplesProcessed, m_isStreaming, m_threadStartState,
                    m_endBuffers, m_buffers, m_thread, m_samples, voice,
                    alBuf, thr, crashed,
                    selfEnded, libVars >>

\* Stream::~Stream, "Request the thread to terminate".
DestroyStream ==
    /\ ~crashed
    /\ ctl.pc = "destroy_stream"
    /\ m_isStreaming' = FALSE
    /\ ctl' = [ctl EXCEPT !.pc = "destroy_join"]
    /\ UNCHANGED << m_format, m_channelCount, m_sampleRate, m_loop,
                    m_samplesProcessed, m_threadStartState, m_endBuffers,
                    m_buffers, m_thread, m_samples, file, voice, alBuf, thr,
                    crashed,
                    selfEnded, libVars >>

\* Stream::~Stream, "Wait for the thread to terminate", then ~Source and
\* ~Resource; the object is gone afterwards and no call can be made on it.
DestroyJoin ==
    /\ ~crashed
    /\ ctl.pc = "destroy_join"
    /\ JoinReturns
    /\ thr' = IF Joinable THEN [thr EXCEPT ![m_thread] = NoThread] ELSE thr
    /\ m_thread' = 0
    /\ ctl' = [ctl EXCEPT !.pc = "destroyed"]
    /\ resource' = ResourceDestructor(resource)
    /\ UNCHANGED << m_format, m_channelCount, m_sampleRate, m_loop,
                    m_samplesProcessed, m_isStreaming, m_threadStartState,
                    m_endBuffers, m_buffers, m_samples, file, voice, alBuf,
                    crashed,
                    selfEnded, soundVars, factoryVars, wav, inputFile,
                    concurrent >>

\* --------------------------------------------------------- Sound and Buffer

\* How many Sound objects and how many Buffer objects exist at a time.
MaxSounds == 2
MaxBuffers == 2

Sounds == 1..MaxSounds
Buffers == 1..MaxBuffers

\* A Sound that is not constructed, and Sound::Sound(): m_buffer(nullptr).
NoSound == [live |-> FALSE, m_buffer |-> 0]
NewSound == [live |-> TRUE, m_buffer |-> 0]

\* A Buffer that is not constructed, and Buffer::Buffer().
NoBuffer == [live |-> FALSE, samples |-> 0, m_sounds |-> {}]
NewBuffer == [live |-> TRUE, samples |-> 0, m_sounds |-> {}]

NoSoundOp == [name |-> "none", b |-> 0, ok |-> FALSE, attached |-> {}]

\* No Sound and no Buffer exists.
SoundIdle ==
    /\ sndObj = [s \in Sounds |-> NoSound]
    /\ bufObj = [b \in Buffers |-> NoBuffer]
    /\ soundOp = NoSoundOp

\* The objects as one value, for the member functions below.
SoundState == [sound |-> sndObj, buffer |-> bufObj]

\* Buffer::attachSound
attachSound(st, b, s) ==
    [st EXCEPT !.buffer[b].m_sounds = @ \cup {s}]

\* A detachSound that leaves the set as it is.
detachSound_Keeps(st, b, s) == st

\* Buffer::detachSound
detachSound(st, b, s) ==
    [st EXCEPT !.buffer[b].m_sounds = @ \ {s}]

\* Sound::resetBuffer
resetBuffer(st, s) ==
    IF st.sound[s].m_buffer # 0
    THEN [detachSound(st, st.sound[s].m_buffer, s)
             EXCEPT !.sound[s].m_buffer = 0]
    ELSE st

\* Sound::setBuffer
setBuffer(st, s, b) ==
    LET detached == IF st.sound[s].m_buffer # 0
                    THEN detachSound(st, st.sound[s].m_buffer, s)
                    ELSE st
    IN attachSound([detached EXCEPT !.sound[s].m_buffer = b], b, s)

\* for (it = sounds.begin(); it != sounds.end(); ++it) (*it)->resetBuffer();
RECURSIVE ResetAll(_, _)
ResetAll(st, sounds) ==
    IF sounds = {} THEN st
    ELSE LET s == CHOOSE x \in sounds : \A y \in sounds : x <= y
         IN ResetAll(resetBuffer(st, s), sounds \ {s})

\* for (it = sounds.begin(); it != sounds.end(); ++it) (*it)->setBuffer(*this);
RECURSIVE SetAll(_, _, _)
SetAll(st, sounds, b) ==
    IF sounds = {} THEN st
    ELSE LET s == CHOOSE x \in sounds : \A y \in sounds : x <= y
         IN SetAll(setBuffer(st, s, b), sounds \ {s}, b)

\* Buffer::update, "Check parameters" and "Check if the format is valid".
UpdateAccepts(st, b, channelCount, sampleRate) ==
    /\ channelCount # 0
    /\ sampleRate # 0
    /\ st.buffer[b].samples # 0
    /\ getFormatFromChannelCount(channelCount) # 0

\* Buffer::update: the sounds are detached, the samples uploaded and the
\* sounds attached again.
update(st, b, channelCount, sampleRate) ==
    IF UpdateAccepts(st, b, channelCount, sampleRate)
    THEN LET sounds == st.buffer[b].m_sounds
         IN SetAll(ResetAll(st, sounds), sounds, b)
    ELSE st

\* Buffer::loadFromSamples
LoadAccepts(sampleCount, channelCount, sampleRate) ==
    sampleCount # 0 /\ channelCount # 0 /\ sampleRate # 0

loadFromSamples(st, b, sampleCount, channelCount, sampleRate) ==
    IF LoadAccepts(sampleCount, channelCount, sampleRate)
    THEN update([st EXCEPT !.buffer[b].samples = sampleCount], b,
                channelCount, sampleRate)
    ELSE st

\* Sound::Sound()
SoundCreate(s) ==
    /\ ~sndObj[s].live
    /\ sndObj' = [sndObj EXCEPT ![s] = NewSound]
    /\ soundOp' = NoSoundOp
    /\ resource' = ResourceConstructor(resource)
    /\ UNCHANGED << bufObj, streamVars, factoryVars, wav, inputFile,
                    concurrent >>

\* Sound::Sound(const Buffer&)
SoundCreateOn(s, b) ==
    /\ ~sndObj[s].live
    /\ bufObj[b].live
    /\ LET st == setBuffer([SoundState EXCEPT !.sound[s] = NewSound], s, b)
       IN sndObj' = st.sound /\ bufObj' = st.buffer
    /\ soundOp' = NoSoundOp
    /\ resource' = ResourceConstructor(resource)
    /\ UNCHANGED << streamVars, factoryVars, wav, inputFile,
                    concurrent >>

\* Sound::Sound(const Sound& copy)
SoundCopy(s, copy) ==
    /\ ~sndObj[s].live
    /\ sndObj[copy].live
    /\ LET made == [SoundState EXCEPT !.sound[s] = NewSound]
           st   == IF sndObj[copy].m_buffer # 0
                   THEN setBuffer(made, s, sndObj[copy].m_buffer)
                   ELSE made
       IN sndObj' = st.sound /\ bufObj' = st.buffer
    /\ soundOp' = NoSoundOp
    /\ resource' = ResourceConstructor(resource)
    /\ UNCHANGED << streamVars, factoryVars, wav, inputFile,
                    concurrent >>

\* Sound::~Sound
SoundDestroy(s) ==
    /\ sndObj[s].live
    /\ LET st == IF sndObj[s].m_buffer # 0
                 THEN detachSound(SoundState, sndObj[s].m_buffer, s)
                 ELSE SoundState
       IN /\ sndObj' = [st.sound EXCEPT ![s] = NoSound]
          /\ bufObj' = st.buffer
    /\ soundOp' = NoSoundOp
    /\ resource' = ResourceDestructor(resource)
    /\ UNCHANGED << streamVars, factoryVars, wav, inputFile,
                    concurrent >>

\* The public Sound::setBuffer
SoundSetBuffer(s, b) ==
    /\ sndObj[s].live
    /\ bufObj[b].live
    /\ LET st == setBuffer(SoundState, s, b)
       IN sndObj' = st.sound /\ bufObj' = st.buffer
    /\ soundOp' = NoSoundOp
    /\ UNCHANGED resource
    /\ UNCHANGED << streamVars, factoryVars, wav, inputFile,
                    concurrent >>

\* The public Sound::resetBuffer
SoundResetBuffer(s) ==
    /\ sndObj[s].live
    /\ LET st == resetBuffer(SoundState, s)
       IN sndObj' = st.sound /\ bufObj' = st.buffer
    /\ soundOp' = NoSoundOp
    /\ UNCHANGED resource
    /\ UNCHANGED << streamVars, factoryVars, wav, inputFile,
                    concurrent >>

\* Sound::operator=: right.m_buffer is read after this->m_buffer was cleared.
SoundAssign(s, right) ==
    /\ sndObj[s].live
    /\ sndObj[right].live
    /\ LET cleared == IF sndObj[s].m_buffer # 0
                      THEN [detachSound(SoundState, sndObj[s].m_buffer, s)
                               EXCEPT !.sound[s].m_buffer = 0]
                      ELSE SoundState
           st      == IF cleared.sound[right].m_buffer # 0
                      THEN setBuffer(cleared, s, cleared.sound[right].m_buffer)
                      ELSE cleared
       IN sndObj' = st.sound /\ bufObj' = st.buffer
    /\ soundOp' = NoSoundOp
    /\ UNCHANGED resource
    /\ UNCHANGED << streamVars, factoryVars, wav, inputFile,
                    concurrent >>

\* Buffer::Buffer()
BufferCreate(b) ==
    /\ ~bufObj[b].live
    /\ bufObj' = [bufObj EXCEPT ![b] = NewBuffer]
    /\ soundOp' = NoSoundOp
    /\ resource' = ResourceConstructor(resource)
    /\ UNCHANGED << sndObj, streamVars, factoryVars, wav, inputFile,
                    concurrent >>

\* Buffer::Buffer(const Buffer& copy): m_samples(copy.m_samples), m_sounds(),
\* then update, which finds no sound to detach.
BufferCopy(b, copy) ==
    /\ ~bufObj[b].live
    /\ bufObj[copy].live
    /\ LET made == [SoundState EXCEPT
                       !.buffer[b] = [NewBuffer EXCEPT
                                         !.samples = bufObj[copy].samples]]
           st   == update(made, b, 1, SampleRate)
       IN sndObj' = st.sound /\ bufObj' = st.buffer
    /\ soundOp' = NoSoundOp
    /\ resource' = ResourceConstructor(resource)
    /\ UNCHANGED << streamVars, factoryVars, wav, inputFile,
                    concurrent >>

\* Buffer::~Buffer: the sounds of the swapped-out list are reset.
BufferDestroy(b) ==
    /\ bufObj[b].live
    /\ LET sounds == bufObj[b].m_sounds
           st     == ResetAll([SoundState EXCEPT !.buffer[b].m_sounds = {}],
                              sounds)
       IN /\ sndObj' = st.sound
          /\ bufObj' = [st.buffer EXCEPT
                           ![b] = [NoBuffer EXCEPT
                                      !.m_sounds = st.buffer[b].m_sounds]]
    /\ soundOp' = NoSoundOp
    /\ resource' = ResourceDestructor(resource)
    /\ UNCHANGED << streamVars, factoryVars, wav, inputFile,
                    concurrent >>

\* Buffer::operator=: a temporary copy of right takes the samples and the
\* sounds of this buffer in the swaps and resets those sounds when it is
\* destroyed.
BufferAssign(b, right) ==
    /\ bufObj[b].live
    /\ bufObj[right].live
    /\ LET sounds  == bufObj[b].m_sounds
           swapped == [SoundState EXCEPT
                          !.buffer[b].samples = bufObj[right].samples,
                          !.buffer[b].m_sounds = {}]
           st      == ResetAll(swapped, sounds)
       IN sndObj' = st.sound /\ bufObj' = st.buffer
    /\ soundOp' = NoSoundOp
    /\ resource' = ResourceDestructor(ResourceConstructor(resource))
    /\ UNCHANGED << streamVars, factoryVars, wav, inputFile,
                    concurrent >>

\* Buffer::loadFromSamples on a buffer that may have sounds attached.
BufferLoad(b, sampleCount, channelCount) ==
    /\ bufObj[b].live
    /\ LET st == loadFromSamples(SoundState, b, sampleCount, channelCount,
                                 SampleRate)
       IN /\ sndObj' = st.sound
          /\ bufObj' = st.buffer
          /\ soundOp' =
                [name |-> "load", b |-> b,
                 ok |-> /\ LoadAccepts(sampleCount, channelCount, SampleRate)
                        /\ UpdateAccepts(
                              [SoundState EXCEPT
                                  !.buffer[b].samples = sampleCount],
                              b, channelCount, SampleRate),
                 attached |-> bufObj[b].m_sounds]
    /\ UNCHANGED resource
    /\ UNCHANGED << streamVars, factoryVars, wav, inputFile,
                    concurrent >>

\* Any sequence of Sound and Buffer operations.
SoundNext ==
    \/ \E s \in Sounds : SoundCreate(s)
    \/ \E s \in Sounds, b \in Buffers : SoundCreateOn(s, b)
    \/ \E s, t \in Sounds : SoundCopy(s, t)
    \/ \E s \in Sounds : SoundDestroy(s)
    \/ \E s \in Sounds, b \in Buffers : SoundSetBuffer(s, b)
    \/ \E s \in Sounds : SoundResetBuffer(s)
    \/ \E s, t \in Sounds : SoundAssign(s, t)
    \/ \E b \in Buffers : BufferCreate(b)
    \/ \E b, c \in Buffers : BufferCopy(b, c)
    \/ \E b \in Buffers : BufferDestroy(b)
    \/ \E b, c \in Buffers : BufferAssign(b, c)
    \/ \E b \in Buffers, n \in {0, 1}, ch \in {0} \cup ChannelChoices :
          BufferLoad(b, n, ch)

\* --------------------------------------------------------- SoundFileFactory

\* The longest list of registered reader factories.
MaxReaders == 3

\* The reader factories: the two of the library, and one an application
\* registers, whose check accepts what either of the others accepts.
ReaderKinds == {"wav", "ogg", "app"}

\* What a stream starts with.
Contents == {"RIFF", "OggS", "other"}

\* const std::uint64_t mainChunkSize = 12
mainChunkSize == 12

\* Where the stream handed to createReaderFromStream stands.
StartOffsets == {0, mainChunkSize}

NoCreated ==
    [valid |-> FALSE, content |-> "other", from |-> 0, reader |-> "none",
     tried |-> << >>]

\* The static registrars of SoundFileReaderWav and SoundFileReaderOgg have
\* run; no reader was asked for.
FactoryIdle ==
    /\ s_readers = << "wav", "ogg" >>
    /\ created = NoCreated

\* The magic a factory's check looks for at the start of the stream.
Accepted(f) ==
    CASE f = "wav" -> {"RIFF"}
      [] f = "ogg" -> {"OggS"}
      [] OTHER -> {"RIFF", "OggS"}

\* A seek that leaves the stream where it is.
streamSeek_Stays(strm, position) == strm

\* InputStream::seek
streamSeek(strm, position) == [strm EXCEPT !.pos = position]

\* T::check(stream): the header is read from where the stream stands.
checkAccepts(f, strm) == strm.pos = 0 /\ strm.content \in Accepted(f)

\* The stream after a check has read the header.
checkReads(strm) == [strm EXCEPT !.pos = strm.pos + mainChunkSize]

\* SoundFileFactory::createReaderFromStream, the loop from factory i on:
\* the reader created, and for every factory tried the offset at which its
\* check began.
RECURSIVE TryReaders(_, _, _, _)
TryReaders(readers, i, strm, tried) ==
    IF i > Len(readers)
    THEN [reader |-> "none", tried |-> tried]
    ELSE LET rewound == streamSeek(strm, 0)
             seen    == Append(tried, [factory |-> readers[i],
                                       pos |-> rewound.pos])
         IN IF checkAccepts(readers[i], rewound)
            THEN [reader |-> readers[i], tried |-> seen]
            ELSE TryReaders(readers, i + 1, checkReads(rewound), seen)

\* SoundFileFactory::AddReader
AddReader(readers, f) == Append(readers, f)

\* SoundFileFactory::RemoveReader
RemoveReader(readers, f) == SelectSeq(readers, LAMBDA x : x # f)

\* internal::ReaderFactoryAdd
ReaderFactoryAdd(f) ==
    /\ Len(s_readers) < MaxReaders
    /\ s_readers' = AddReader(s_readers, f)
    /\ created' = NoCreated
    /\ UNCHANGED << streamVars, soundVars, resource, wav, inputFile,
                    concurrent >>

\* A RegisterReader that adds without removing the type first.
RegisterReader_AddsOnly(f) ==
    /\ Len(s_readers) < MaxReaders
    /\ s_readers' = AddReader(s_readers, f)
    /\ created' = NoCreated
    /\ UNCHANGED << streamVars, soundVars, resource, wav, inputFile,
                    concurrent >>

\* internal::RegisterReader<T>: UnregisterReader<T>, then ReaderFactoryAdd.
RegisterReader(f) ==
    /\ Len(RemoveReader(s_readers, f)) < MaxReaders
    /\ s_readers' = AddReader(RemoveReader(s_readers, f), f)
    /\ created' = NoCreated
    /\ UNCHANGED << streamVars, soundVars, resource, wav, inputFile,
                    concurrent >>

\* internal::UnregisterReader<T>
UnregisterReader(f) ==
    /\ s_readers' = RemoveReader(s_readers, f)
    /\ created' = NoCreated
    /\ UNCHANGED << streamVars, soundVars, resource, wav, inputFile,
                    concurrent >>

\* SoundFileFactory::createReaderFromStream on a stream of the given content
\* that stands at the given offset.
CreateReaderFromStream(content, from) ==
    /\ LET r == TryReaders(s_readers, 1, [content |-> content, pos |-> from],
                           << >>)
       IN created' = [valid |-> TRUE, content |-> content, from |-> from,
                      reader |-> r.reader, tried |-> r.tried]
    /\ UNCHANGED << s_readers, streamVars, soundVars, resource, wav, inputFile,
                    concurrent >>

FactoryNext ==
    \/ \E f \in ReaderKinds : ReaderFactoryAdd(f)
    \/ \E f \in ReaderKinds : RegisterReader(f)
    \/ \E f \in ReaderKinds : UnregisterReader(f)
    \/ \E c \in Contents, from \in StartOffsets : CreateReaderFromStream(c, from)

\* ------------------------------------------------- SoundFileReaderWav

\* The longest sequence of sub-chunks of an input stream.
MaxChunks == 3

\* The sub-chunks an input stream is made of.  size is the declared size of
\* the chunk; whole is false when the stream ends inside the chunk's body.
\* The "fmt " chunks declare 16 bytes or 2 more; format 1 is PCM.
FmtChunks ==
    [id : {"fmt "}, size : {16}, format : {1},
     bitsPerSample : {0, 8, 12, 16, 24, 32}, whole : {TRUE}]
    \cup [id : {"fmt "}, size : {16, 18}, format : {1, 3},
          bitsPerSample : {16}, whole : BOOLEAN]

DataChunks ==
    [id : {"data"}, size : {0, 7}, format : {0}, bitsPerSample : {0},
     whole : {TRUE}]

OtherChunks ==
    [id : {"LIST"}, size : {4}, format : {0}, bitsPerSample : {0},
     whole : BOOLEAN]

SubChunks == FmtChunks \cup DataChunks \cup OtherChunks

SeqsUpTo(S, n) == UNION {[1..k -> S] : k \in 0..n}

\* An input stream: whether it holds the 12 bytes of the main chunk, and the
\* sub-chunks that follow.
WavStreams == [mainChunk : BOOLEAN, chunks : SeqsUpTo(SubChunks, MaxChunks)]

\* SoundFileReaderWav::SoundFileReaderWav, given a stream: no bytes per
\* sample, nothing parsed.  next is the sub-chunk at which the stream stands.
NewReaderWav(stream) ==
    [stream |-> stream, next |-> 1, m_bytesPerSample |-> 0,
     sampleCount |-> 0, dataChunkFound |-> FALSE, result |-> "idle"]

WavIdle == NewReaderWav([mainChunk |-> FALSE, chunks |-> << >>])

\* What the build can make of `subChunkSize / m_bytesPerSample` with zero
\* bytes per sample: the division traps and the process is terminated, or
\* the division yields some value.
DivisionByZero(subChunkSize) ==
    {[trap |-> TRUE, quotient |-> 0]}
    \cup {[trap |-> FALSE, quotient |-> q] : q \in {0, subChunkSize}}

\* The "fmt " branch of parseHeader: a decode fails in a truncated chunk, a
\* format other than PCM and a sample size other than 8/16/24/32 are refused,
\* the extra bytes of a longer chunk are skipped.
parseFmt(r, c) ==
    IF ~c.whole \/ c.format # 1 \/ c.bitsPerSample \notin {8, 16, 24, 32}
    THEN [r EXCEPT !.result = "failed"]
    ELSE [r EXCEPT !.m_bytesPerSample = c.bitsPerSample \div 8,
                   !.next = r.next + 1]

\* The branch of an unknown chunk: the stream is moved past the chunk; past a
\* truncated chunk it stands at its end.
skipChunk(r, c) ==
    [r EXCEPT !.next = IF c.whole THEN r.next + 1 ELSE Len(r.stream.chunks) + 1]

\* SoundFileReaderWav::open, parseHeader up to its loop: the main chunk.
WavOpen ==
    /\ wav.result = "idle"
    /\ wav' = [wav EXCEPT !.result = IF wav.stream.mainChunk THEN "parsing"
                                     ELSE "failed"]
    /\ UNCHANGED << streamVars, soundVars, resource, factoryVars, inputFile,
                    concurrent >>

\* parseHeader: the id or the size of the next sub-chunk cannot be read.
ParseEndOfStream ==
    /\ wav.result = "parsing"
    /\ wav.next > Len(wav.stream.chunks)
    /\ wav' = [wav EXCEPT !.result = "failed"]
    /\ UNCHANGED << streamVars, soundVars, resource, factoryVars, inputFile,
                    concurrent >>

\* parseHeader: a "fmt " sub-chunk.
ParseFmtChunk ==
    /\ wav.result = "parsing"
    /\ wav.next <= Len(wav.stream.chunks)
    /\ wav.stream.chunks[wav.next].id = "fmt "
    /\ wav' = parseFmt(wav, wav.stream.chunks[wav.next])
    /\ UNCHANGED << streamVars, soundVars, resource, factoryVars, inputFile,
                    concurrent >>

\* parseHeader: the "data" sub-chunk ends the loop.
ParseDataChunk ==
    /\ wav.result = "parsing"
    /\ wav.next <= Len(wav.stream.chunks)
    /\ wav.stream.chunks[wav.next].id = "data"
    /\ LET subChunkSize == wav.stream.chunks[wav.next].size IN
       IF wav.m_bytesPerSample # 0
       THEN wav' = [wav EXCEPT
                       !.sampleCount = subChunkSize \div wav.m_bytesPerSample,
                       !.dataChunkFound = TRUE, !.result = "ok"]
       ELSE \E q \in DivisionByZero(subChunkSize) :
               wav' = IF q.trap
                      THEN [wav EXCEPT !.result = "terminated"]
                      ELSE [wav EXCEPT !.sampleCount = q.quotient,
                                       !.dataChunkFound = TRUE,
                                       !.result = "ok"]
    /\ UNCHANGED << streamVars, soundVars, resource, factoryVars, inputFile,
                    concurrent >>

\* parseHeader: any other sub-chunk is skipped.
ParseOtherChunk ==
    /\ wav.result = "parsing"
    /\ wav.next <= Len(wav.stream.chunks)
    /\ wav.stream.chunks[wav.next].id \notin {"fmt ", "data"}
    /\ wav' = skipChunk(wav, wav.stream.chunks[wav.next])
    /\ UNCHANGED << streamVars, soundVars, resource, factoryVars, inputFile,
                    concurrent >>

WavNext ==
    \/ WavOpen
    \/ ParseEndOfStream
    \/ ParseFmtChunk
    \/ ParseDataChunk
    \/ ParseOtherChunk

\* ------------------------------------------------------ InputSoundFile

\* InputSoundFile::InputSoundFile: no reader, no stream, attributes 0.
\* opened: the reader's open() has succeeded; pos: samples read so far;
\* op, ret, got are history: the last call, what it returned, and the count
\* the last read returned.
NewInputSoundFile ==
    [m_reader |-> "none", opened |-> FALSE, m_stream |-> "none",
     m_streamOwned |-> FALSE, m_sampleCount |-> 0, m_channelCount |-> 0,
     m_sampleRate |-> 0, pos |-> 0, op |-> "none", ret |-> "none", got |-> 0]

\* What an open meets: the reader the factory finds for the content (or
\* none), whether the named file can be opened, whether the stream seeks back
\* to 0, whether the reader parses the header, and the attributes it finds.
OpenInputs ==
    [reader : {"none", "wav", "ogg"}, opens : BOOLEAN, rewinds : BOOLEAN,
     parses : BOOLEAN, sampleCount : {0, MaxLen}, channelCount : {1, 2}]

\* InputSoundFile::close
closeFile(f) ==
    [f EXCEPT !.m_reader = "none", !.opened = FALSE, !.m_stream = "none",
              !.m_streamOwned = FALSE, !.m_sampleCount = 0,
              !.m_channelCount = 0, !.m_sampleRate = 0, !.pos = 0]

\* "Retrieve the attributes of the open sound file"
Retrieved(f, in) ==
    [f EXCEPT !.opened = TRUE, !.m_sampleCount = in.sampleCount,
              !.m_channelCount = in.channelCount, !.m_sampleRate = SampleRate,
              !.ret = "true"]

\* InputSoundFile::openFromFile
openFromFile(f, in) ==
    LET c == [closeFile(f) EXCEPT !.op = "openFromFile", !.ret = "false"]
        s == [c EXCEPT !.m_reader = in.reader, !.m_stream = "file",
                       !.m_streamOwned = TRUE]
    IN  IF in.reader = "none" THEN c
        ELSE IF ~in.opens THEN closeFile(s)
        ELSE IF ~in.parses THEN closeFile(s)
        ELSE Retrieved(s, in)

\* InputSoundFile::openFromMemory
openFromMemory(f, in) ==
    LET c == [closeFile(f) EXCEPT !.op = "openFromMemory", !.ret = "false"]
        s == [c EXCEPT !.m_reader = in.reader, !.m_stream = "memory",
                       !.m_streamOwned = TRUE]
    IN  IF in.reader = "none" THEN c
        ELSE IF ~in.parses THEN closeFile(s)
        ELSE Retrieved(s, in)

\* InputSoundFile::openFromStream: the branch of a stream that cannot be
\* restarted returns without close().
openFromStream(f, in) ==
    LET c == [closeFile(f) EXCEPT !.op = "openFromStream", !.ret = "false"]
        s == [c EXCEPT !.m_reader = in.reader, !.m_stream = "user",
                       !.m_streamOwned = FALSE]
    IN  IF in.reader = "none" THEN c
        ELSE IF ~in.rewinds THEN s
        ELSE IF ~in.parses THEN closeFile(s)
        ELSE Retrieved(s, in)

\* InputSoundFile::read: 0 without a reader or a count; otherwise the
\* reader's read.  A reader that was never opened fails EMYL_ASSERT in a build
\* with EMYL_DEBUG, which ends the process, and returns 0 in a build without.
ReadOutcomes(f, maxCount) ==
    IF f.m_reader = "none" \/ maxCount = 0
    THEN {[terminated |-> FALSE, count |-> 0]}
    ELSE IF f.opened
    THEN {[terminated |-> FALSE,
           count |-> IF f.m_sampleCount - f.pos < maxCount
                     THEN f.m_sampleCount - f.pos ELSE maxCount]}
    ELSE {[terminated |-> TRUE, count |-> 0],
          [terminated |-> FALSE, count |-> 0]}

InputOpenFromFile(in) ==
    /\ inputFile.ret # "terminated"
    /\ inputFile' = openFromFile(inputFile, in)
    /\ UNCHANGED << streamVars, soundVars, resource, factoryVars, wav,
                    concurrent >>

InputOpenFromMemory(in) ==
    /\ inputFile.ret # "terminated"
    /\ inputFile' = openFromMemory(inputFile, in)
    /\ UNCHANGED << streamVars, soundVars, resource, factoryVars, wav,
                    concurrent >>

InputOpenFromStream(in) ==
    /\ inputFile.ret # "terminated"
    /\ inputFile' = openFromStream(inputFile, in)
    /\ UNCHANGED << streamVars, soundVars, resource, factoryVars, wav,
                    concurrent >>

\* InputSoundFile::close, called by the owner.
InputClose ==
    /\ inputFile.ret # "terminated"
    /\ inputFile' = [closeFile(inputFile) EXCEPT !.op = "close",
                                                 !.ret = "none"]
    /\ UNCHANGED << streamVars, soundVars, resource, factoryVars, wav,
                    concurrent >>

\* InputSoundFile::read of up to maxCount samples.
InputRead(maxCount) ==
    /\ inputFile.ret # "terminated"
    /\ \E out \in ReadOutcomes(inputFile, maxCount) :
          inputFile' =
             IF out.terminated
             THEN [inputFile EXCEPT !.op = "read", !.ret = "terminated"]
             ELSE [inputFile EXCEPT !.op = "read", !.ret = "none",
                                    !.got = out.count,
                                    !.pos = @ + out.count]
    /\ UNCHANGED << streamVars, soundVars, resource, factoryVars, wav,
                    concurrent >>

InputFileNext ==
    \/ \E in \in OpenInputs : InputOpenFromFile(in)
    \/ \E in \in OpenInputs : InputOpenFromMemory(in)
    \/ \E in \in OpenInputs : InputOpenFromStream(in)
    \/ InputClose
    \/ \E n \in {0, SampleRate} : InputRead(n)

\* --------------------------------- Resource, from two threads at once

\* The threads that construct and destroy resources.
Threads == {1, 2}

\* The most resources one thread holds, and the most devices ever made.
MaxHeld == 2
MaxDevices == 3

\* A thread outside any constructor or destructor, holding no resource.
\* currentCount is the local of the constructor or destructor it is in.
IdleThread == [pc |-> "idle", held |-> 0, currentCount |-> 0]

\* s_resourceCount(0) and Device::instance(nullptr): count is the atomic
\* counter, instance the pointer (0 is nullptr, otherwise a device), devices
\* the Device objects that exist, made the number constructed so far.
ConcurrentIdle ==
    [count |-> 0, instance |-> 0, devices |-> {}, made |-> 0,
     t |-> [x \in Threads |-> IdleThread]]

\* Resource::Resource: `currentCount = s_resourceCount++`, one atomic step;
\* the constructor returns when currentCount is not 0.
ResourceCount(x) ==
    /\ concurrent.t[x].pc = "idle"
    /\ concurrent.t[x].held < MaxHeld
    /\ concurrent.made < MaxDevices
    /\ concurrent' =
          [concurrent EXCEPT
             !.count = @ + 1,
             !.t[x] = IF concurrent.count = 0
                      THEN [@ EXCEPT !.pc = "new", !.currentCount = 0]
                      ELSE [@ EXCEPT !.held = @ + 1,
                                     !.currentCount = concurrent.count]]
    /\ UNCHANGED << streamVars, soundVars, resource, factoryVars, wav,
                    inputFile >>

\* Resource::Resource: `new Device`, the device is constructed.
ResourceNewDevice(x) ==
    /\ concurrent.t[x].pc = "new"
    /\ concurrent' =
          [concurrent EXCEPT !.made = @ + 1,
                             !.devices = @ \cup {concurrent.made + 1},
                             !.t[x].pc = "assign",
                             !.t[x].currentCount = concurrent.made + 1]
    /\ UNCHANGED << streamVars, soundVars, resource, factoryVars, wav,
                    inputFile >>

\* Resource::Resource: `Device::instance = ...`, and the constructor
\* returns.  currentCount holds the new device between the two steps.
ResourceAssign(x) ==
    /\ concurrent.t[x].pc = "assign"
    /\ concurrent' =
          [concurrent EXCEPT !.instance = concurrent.t[x].currentCount,
                             !.t[x] = [@ EXCEPT !.pc = "idle",
                                                !.held = @ + 1,
                                                !.currentCount = 0]]
    /\ UNCHANGED << streamVars, soundVars, resource, factoryVars, wav,
                    inputFile >>

\* Resource::~Resource: `currentCount = --s_resourceCount`, one atomic step;
\* the destructor returns when currentCount is not 0.
ResourceUncount(x) ==
    /\ concurrent.t[x].pc = "idle"
    /\ concurrent.t[x].held > 0
    /\ concurrent' =
          [concurrent EXCEPT
             !.count = @ - 1,
             !.t[x] = [@ EXCEPT !.held = @ - 1,
                                !.currentCount = concurrent.count - 1,
                                !.pc = IF concurrent.count - 1 = 0
                                       THEN "delete" ELSE "idle"]]
    /\ UNCHANGED << streamVars, soundVars, resource, factoryVars, wav,
                    inputFile >>

\* Resource::~Resource: `delete Device::instance`.
ResourceDeleteDevice(x) ==
    /\ concurrent.t[x].pc = "delete"
    /\ concurrent' =
          [concurrent EXCEPT !.devices = @ \ {concurrent.instance},
                             !.t[x].pc = "null"]
    /\ UNCHANGED << streamVars, soundVars, resource, factoryVars, wav,
                    inputFile >>

\* Resource::~Resource: `Device::instance = nullptr`, and the destructor
\* returns.
ResourceNull(x) ==
    /\ concurrent.t[x].pc = "null"
    /\ concurrent' = [concurrent EXCEPT !.instance = 0,
                                        !.t[x].pc = "idle"]
    /\ UNCHANGED << streamVars, soundVars, resource, factoryVars, wav,
                    inputFile >>

ConcurrentNext ==
    \E x \in Threads :
        \/ ResourceCount(x)
        \/ ResourceNewDevice(x)
        \/ ResourceAssign(x)
        \/ ResourceUncount(x)
        \/ ResourceDeleteDevice(x)
        \/ ResourceNull(x)

\* The state after construction of the stream, with no other object.
Init ==
    /\ StreamInit
    /\ SoundIdle
    /\ resource = ResourceConstructor(NoResource)
    /\ FactoryIdle
    /\ wav = WavIdle
    /\ inputFile = NewInputSoundFile
    /\ concurrent = ConcurrentIdle

\* ---------------------------------------------------------- specification

Next ==
    \/ Play
    \/ PlayBranch
    \/ PlayFresh
    \/ Launch
    \/ Pause
    \/ PauseVoice
    \/ Stop
    \/ StopJoin
    \/ \E t \in TimeOffsets : SetPlayingOffset(t)
    \/ SeekStop
    \/ SeekAfter
    \/ \E b \in BOOLEAN : SetLoop(b)
    \/ OpenFromFile
    \/ \E len \in Lengths, ch \in ChannelChoices : OpenFile(len, ch)
    \/ DestroyMusic
    \/ DestroyFile
    \/ DestroyStream
    \/ DestroyJoin
    \/ \E w \in Workers : ~crashed /\ WorkerStep(w)
    \/ ~crashed /\ VoiceFinishBuffer

Spec == Init /\ [][Next]_vars


\* ------------------------------------------------------------------ claims

LiveWorkers == {w \in Workers : Alive(w)}

\* C1 (P1, no double worker): in every reachable state at most one worker
\* thread executing streamData is alive.
C1_NoDoubleWorker == Cardinality(LiveWorkers) <= 1

\* The control thread is back in its caller from the named operation.
ReturnedFrom(op) == ctl.pc = "idle" /\ ctl.op = op

BuffersReleased == \A s \in Slots : ~alBuf[m_buffers[s]].live

WorkerKeepsUp ==
    \/ alProcessed(voice) = 0
    \/ \E w \in Workers : thr[w].pc \in {"getdata", "push"}

\* One playback: the file is opened, looping is chosen, play() is called once
\* and no other call is made.
PlayOnceNext ==
    \/ ctl.calls = 0 /\ OpenFromFile
    \/ StopJoin
    \/ \E len \in Lengths, ch \in ChannelChoices : OpenFile(len, ch)
    \/ ctl.op = "openFromFile" /\ \E b \in BOOLEAN : SetLoop(b)
    \/ ctl.op = "openFromFile" /\ Play
    \/ PlayBranch
    \/ Launch
    \/ \E w \in Workers : ~crashed /\ WorkerStep(w)
    \/ ~crashed /\ WorkerKeepsUp /\ VoiceFinishBuffer

\* The worker is scheduled, the voice consumes what is queued, and a call that
\* was made runs to its end.
PlayOnceSpec ==
    /\ Init
    /\ [][PlayOnceNext]_vars
    /\ WF_vars(\E w \in Workers : ~crashed /\ WorkerStep(w))
    /\ WF_vars(~crashed /\ WorkerKeepsUp /\ VoiceFinishBuffer)
    /\ WF_vars(StopJoin \/ PlayBranch \/ Launch)

\* The worker unqueues a buffer the voice has finished.
UnqueuesProcessed ==
    /\ alCanUnqueue(voice)
    /\ \E w \in Workers : thr[w].pc = "dequeue" /\ thr'[w] # thr[w]

\* C4 (P3, the loop boundary resets the position counter exactly once): in a
\* looping playback of a file of L > 0 samples, whenever the worker unqueues a
\* finished buffer, m_samplesProcessed becomes 0 if and only if that buffer
\* holds the samples that end at position L of the file.
C4_ResetAtLoopBoundary ==
    [][(UnqueuesProcessed /\ m_loop /\ file.len > 0) =>
          (m_samplesProcessed' = 0
             <=> alBuf[Head(voice.queue)].srcEnd = file.len)]_vars

C6_NoPlayingAfterSelfEnd == selfEnded => getState # "Playing"

\* play() takes its branch after it read m_isStreaming and the requested
\* state.
PlayTakesBranch == ctl.pc = "play_branch" /\ ctl' # ctl

\* C7 (P5, pause/resume preserves the position): a play() that finds a worker
\* active and the requested state Paused resumes in place: the file is not
\* seeked, m_samplesProcessed is not reset, no worker is stopped or launched,
\* the requested state becomes Playing, and a paused voice plays on from where
\* it was.
C7_ResumeInPlace ==
    [][(PlayTakesBranch /\ ctl.isStreaming /\ ctl.threadStartState = "Paused")
         => /\ file' = file
            /\ m_samplesProcessed' = m_samplesProcessed
            /\ thr' = thr
            /\ m_thread' = m_thread
            /\ m_isStreaming' = m_isStreaming
            /\ crashed' = crashed
            /\ m_threadStartState' = "Playing"
            /\ ctl'.pc = "idle"
            /\ voice.state = "Paused" =>
                  /\ voice' = [voice EXCEPT !.state = "Playing"]
                  /\ getPlayingOffset' = getPlayingOffset]_vars

\* play() has resumed a stream that was paused after part of it was played.
C7_Witness ==
    /\ ReturnedFrom("play")
    /\ ctl.branch = "resume"
    /\ m_isStreaming
    /\ m_threadStartState = "Playing"
    /\ voice.state = "Playing"
    /\ voice.pos > 0
    /\ m_samplesProcessed > 0

\* setPlayingOffset() returns to its caller.
SeekReturns ==
    /\ ctl.op = "setPlayingOffset"
    /\ ctl.pc # "idle"
    /\ ctl'.pc = "idle"

\* The offset passed to setPlayingOffset() lies within the open file.
OffsetWithinSource ==
    /\ file.open
    /\ ctl.timeOffset * file.rate * file.channels <= file.len * TimeDen

\* After the step, the distance of getPlayingOffset() from the offset that
\* was passed is less than the duration of one buffer window (one second).
WithinOneWindow ==
    /\ getPlayingOffset' - ctl.timeOffset < TimeDen
    /\ ctl.timeOffset - getPlayingOffset' < TimeDen

PlayIsCalled ==
    /\ ctl.pc = "idle"
    /\ ctl'.op = "play"
    /\ ctl'.calls = ctl.calls + 1

\* C9: on a stream that was never initialized, or was initialized with a
\* channel count that has no format, play() returns at once: no worker is
\* launched, m_isStreaming stays false, the file is not seeked, the position
\* counter and the voice are unchanged, and getState() reports Stopped.
C9_PlayUninitializedIsNoOp ==
    [][(PlayIsCalled /\ m_format = 0)
         => /\ ctl'.pc = "idle"
            /\ thr' = thr
            /\ m_thread' = m_thread
            /\ LiveWorkers' = {}
            /\ m_isStreaming' = FALSE
            /\ file' = file
            /\ m_samplesProcessed' = m_samplesProcessed
            /\ voice' = voice
            /\ getState' = "Stopped"]_vars

\* play() has returned without effect on a stream whose file has a channel
\* count without format.
C9_Witness ==
    /\ ReturnedFrom("play")
    /\ ctl.branch = "noop"
    /\ file.open
    /\ file.len > 0
    /\ getFormatFromChannelCount(file.channels) = 0
    /\ m_channelCount = 0
    /\ m_sampleRate = 0

\* play() constructs the thread after it took the restart branch.
RestartLaunches ==
    /\ ctl.pc = "launch"
    /\ ctl.branch = "restart"
    /\ thr' # thr

\* C10: a play() that finds a worker active and the requested state Playing
\* signals the stop and joins; when it then starts afresh no worker is left,
\* and when it launches the file is at 0, the position counter is 0, and
\* exactly one worker, the new one, is alive with m_isStreaming true and the
\* requested state Playing.
C10_PlayWhilePlayingRestarts ==
    [][/\ (PlayTakesBranch /\ ctl.isStreaming
             /\ ctl.threadStartState = "Playing")
          => /\ ctl'.pc = "stop_join"
             /\ ctl'.branch = "restart"
             /\ m_isStreaming' = FALSE
       /\ (ctl.pc = "play_fresh" /\ ctl.branch = "restart" /\ ctl' # ctl)
          => /\ LiveWorkers = {}
             /\ m_thread = 0
             /\ file.pos = 0
             /\ m_samplesProcessed = 0
       /\ RestartLaunches
          => /\ LiveWorkers = {}
             /\ crashed' = FALSE
             /\ Cardinality(LiveWorkers') = 1
             /\ m_thread' \in LiveWorkers'
             /\ thr'[m_thread'].pc = "start"
             /\ file'.pos = 0
             /\ m_samplesProcessed' = 0
             /\ m_isStreaming' = TRUE
             /\ m_threadStartState' = "Playing"
             /\ ctl'.pc = "idle"]_vars

\* play() has returned after it restarted a stream that was playing.
C10_Witness ==
    /\ ReturnedFrom("play")
    /\ ctl.branch = "restart"
    /\ m_isStreaming
    /\ m_threadStartState = "Playing"
    /\ m_thread # 0
    /\ thr[m_thread].pc = "start"
    /\ file.len > 0

\* pause() is called.
PauseIsCalled ==
    /\ ctl.pc = "idle"
    /\ ctl'.op = "pause"
    /\ ctl'.calls = ctl.calls + 1

\* C11: a pause() that finds m_isStreaming false changes nothing (the
\* requested state, the voice, the position counter, the file and the workers
\* are as before); one that finds it true sets the requested state to Paused
\* and then, in the calling thread and before it returns, pauses a playing
\* voice, without a stop signal and without a change to any worker.
C11_PauseFrame ==
    [][/\ (PauseIsCalled /\ ~m_isStreaming)
          => /\ ctl'.pc = "idle"
             /\ m_threadStartState' = m_threadStartState
             /\ voice' = voice
             /\ m_samplesProcessed' = m_samplesProcessed
             /\ file' = file
             /\ thr' = thr
             /\ m_thread' = m_thread
             /\ m_isStreaming' = FALSE
       /\ (PauseIsCalled /\ m_isStreaming)
          => /\ ctl'.pc = "pause_al"
             /\ m_threadStartState' = "Paused"
             /\ m_isStreaming' = TRUE
             /\ thr' = thr
             /\ m_thread' = m_thread
             /\ m_samplesProcessed' = m_samplesProcessed
             /\ file' = file
       /\ (ctl.pc = "pause_al" /\ ctl' # ctl)
          => /\ ctl'.pc = "idle"
             /\ voice' = IF voice.state = "Playing"
                         THEN [voice EXCEPT !.state = "Paused"] ELSE voice
             /\ m_isStreaming' = m_isStreaming
             /\ m_threadStartState' = m_threadStartState
             /\ thr' = thr
             /\ m_thread' = m_thread
             /\ m_samplesProcessed' = m_samplesProcessed
             /\ file' = file]_vars

\* pause() has returned after it paused the voice of a stream that was
\* playing, and the worker is still there.
C11_Witness ==
    /\ ReturnedFrom("pause")
    /\ m_isStreaming
    /\ m_threadStartState = "Paused"
    /\ voice.state = "Paused"
    /\ voice.pos > 0
    /\ m_thread # 0
    /\ Alive(m_thread)

\* The sample a time offset falls on in the open file.
SampleAt(t) == (t * file.rate * file.channels) \div TimeDen

\* setPlayingOffset() constructs the thread.
SeekLaunches ==
    /\ ctl.pc = "launch"
    /\ ctl.op = "setPlayingOffset"
    /\ thr' # thr

\* C12: setPlayingOffset(t) takes as old state S what getState() gives: the
\* voice's state, or for a stopped voice the requested state when
\* m_isStreaming is true and Stopped otherwise.  After its stop() it seeks
\* the file to t and sets the position counter to t in samples; with S Stopped
\* it returns with no worker alive and m_isStreaming false; otherwise no
\* worker is left of the old stream, and it returns with exactly one worker,
\* a fresh one, alive, m_isStreaming true and the requested state S.
C12_SeekRestartsInOldState ==
    [][/\ (ctl.pc = "seek_state" /\ ctl' # ctl)
          => ctl'.oldState =
                IF ctl.oldState # "Stopped" THEN ctl.oldState
                ELSE IF m_isStreaming THEN m_threadStartState
                ELSE "Stopped"
       /\ (ctl.pc = "seek_after" /\ ctl' # ctl)
          => /\ LiveWorkers = {}
             /\ m_thread = 0
             /\ file.open => file'.pos = SampleAt(ctl.timeOffset)
             /\ m_samplesProcessed' =
                   (ctl.timeOffset * m_sampleRate * m_channelCount) \div TimeDen
             /\ IF ctl.oldState = "Stopped"
                THEN /\ ctl'.pc = "idle"
                     /\ m_isStreaming' = FALSE
                     /\ LiveWorkers' = {}
                ELSE /\ ctl'.pc = "launch"
                     /\ ctl'.timeOffset = ctl.timeOffset
                     /\ m_isStreaming' = TRUE
                     /\ m_threadStartState' = ctl.oldState
       /\ SeekLaunches
          => /\ LiveWorkers = {}
             /\ crashed' = FALSE
             /\ ctl'.pc = "idle"
             /\ Cardinality(LiveWorkers') = 1
             /\ m_thread' \in LiveWorkers'
             /\ thr'[m_thread'].pc = "start"
             /\ m_isStreaming' = TRUE
             /\ m_threadStartState' = m_threadStartState
             /\ file.open => file'.pos = SampleAt(ctl.timeOffset)
             /\ m_samplesProcessed' =
                   (ctl.timeOffset * m_sampleRate * m_channelCount) \div TimeDen]_vars

\* setPlayingOffset(MaxOffset) has returned after it restarted a paused
\* stream: the fresh worker is there, launched into Paused.
C12_Witness ==
    /\ ReturnedFrom("setPlayingOffset")
    /\ m_isStreaming
    /\ m_threadStartState = "Paused"
    /\ m_thread # 0
    /\ thr[m_thread].pc = "start"
    /\ LiveWorkers = {m_thread}
    /\ file.pos = SampleAt(MaxOffset)
    /\ m_samplesProcessed = SampleAt(MaxOffset)
    /\ m_samplesProcessed > 0

\* C13: getState() is the voice's state when the voice is paused or playing;
\* for a stopped voice it is the requested state when m_isStreaming is true
\* and Stopped otherwise.  Hence after a play() that started afresh has
\* returned, and as long as no other call is made and the worker has not
\* cleared m_isStreaming, getState() is not Stopped.
C13_GetState ==
    /\ getState = IF voice.state \in {"Paused", "Playing"} THEN voice.state
                  ELSE IF m_isStreaming THEN m_threadStartState
                  ELSE "Stopped"
    /\ (ReturnedFrom("play") /\ ctl.branch \in {"fresh", "restart"}
          /\ ~selfEnded)
       => getState # "Stopped"

\* A fresh start has returned and the voice does not play yet (the worker is
\* filling the queue), or not any more (it ran dry): getState() says Playing.
C13_Witness ==
    /\ ReturnedFrom("play")
    /\ ctl.branch = "fresh"
    /\ ~selfEnded
    /\ SourceGetState(voice) = "Stopped"
    /\ m_isStreaming
    /\ Len(voice.queue) > 0
    /\ getState = "Playing"

\* The steps of the control thread that write m_isStreaming and
\* m_threadStartState outside any std::lock_guard of m_threadMutex: the writes
\* of play() before it constructs the thread, and those of setPlayingOffset()
\* before it does.
UnguardedAccess ==
    /\ ctl.pc \in {"play_branch", "play_fresh", "seek_after"}
    /\ ctl'.pc = "launch"
    /\ m_isStreaming'
    /\ << m_isStreaming, m_threadStartState >>
          # << m_isStreaming', m_threadStartState' >>

\* C14: every read and write of m_isStreaming and m_threadStartState is made
\* with m_threadMutex held: no step writes them outside a lock_guard.
C14_FlagsUnderMutex == [][~UnguardedAccess]_vars

\* C15 as stated: m_isStreaming is true if and only if a worker is alive.
C15_StreamingIffWorker == m_isStreaming <=> LiveWorkers # {}

\* C15: whenever m_isStreaming is true a worker is alive, or the control
\* thread has just written the flag and is about to construct the thread.
C15_StreamingHasWorker ==
    m_isStreaming => (LiveWorkers # {} \/ ctl.pc = "launch")

\* m_isStreaming is true while the worker is in its dequeue loop and no call
\* is in progress.
C15_Witness ==
    /\ m_isStreaming
    /\ ctl.pc = "idle"
    /\ \E w \in Workers : thr[w].pc = "dequeue"

\* --------------------------------------------- one play(), any relative pace

\* One playback as in PlayOnceNext, with a voice that finishes its buffers at
\* any pace relative to the worker: it may drain the whole queue between two
\* polls.
PlayOnceAnyPaceNext ==
    \/ ctl.calls = 0 /\ OpenFromFile
    \/ StopJoin
    \/ \E len \in Lengths, ch \in ChannelChoices : OpenFile(len, ch)
    \/ ctl.op = "openFromFile" /\ \E b \in BOOLEAN : SetLoop(b)
    \/ ctl.op = "openFromFile" /\ Play
    \/ PlayBranch
    \/ Launch
    \/ \E w \in Workers : ~crashed /\ WorkerStep(w)
    \/ ~crashed /\ VoiceFinishBuffer

PlayOnceAnyPaceSpec == Init /\ [][PlayOnceAnyPaceNext]_vars

\* The one play() has started the stream of a file with samples, looping.
LoopingPlayback ==
    /\ ctl.op = "play"
    /\ ctl.branch = "fresh"
    /\ m_loop
    /\ file.len > 0

\* C16: in a looping playback of a non-empty file with no call after play(),
\* no worker ever has a stop pending or is on the way out of its loop,
\* m_isStreaming stays true, and once play() has returned getState() is
\* Playing in every state.
C16_LoopingKeepsPlaying ==
    LoopingPlayback =>
        /\ \A w \in Workers :
              /\ ~thr[w].requestStop
              /\ ~thr[w].fillStop
              /\ thr[w].pc \notin {"endstream", "stopvoice", "clearqueue",
                                   "release", "done"}
        /\ ctl.pc \in {"launch", "idle"}
        /\ m_isStreaming
        /\ ctl.pc = "idle" => getState = "Playing"

\* A looping playback in which the source has wrapped (a slot is flagged as
\* the end of the stream) and the worker has found the voice stopped by an
\* underrun.
C16_Witness ==
    /\ LoopingPlayback
    /\ ctl.pc = "idle"
    /\ m_samplesProcessed > 0
    /\ \E s \in Slots : m_endBuffers[s]
    /\ \E w \in Workers : thr[w].pc = "restart"

\* The worker uploads samples to the buffer of the slot it is filling
\* (alBufferData) and queues it.
Uploads(w) ==
    /\ thr[w].pc = "push"
    /\ thr[w].sampleCount > 0
    /\ thr'[w] # thr[w]

\* The voice's queue holds at most BufferCount buffers, each at most once.
QueueIsRing ==
    /\ Len(voice.queue) <= BufferCount
    /\ \A j, k \in 1..Len(voice.queue) :
          voice.queue[j] = voice.queue[k] => j = k

\* C17: the queue never holds more than BufferCount buffers nor a buffer
\* twice, and a worker uploads samples to a slot's buffer only while that
\* buffer is not in the voice's queue.
C17_UploadOnlyWhenDequeued ==
    /\ []QueueIsRing
    /\ [][\A w \in Workers :
             Uploads(w) => ~InQueue(voice, m_buffers[thr[w].bufferNum])]_vars

\* -------------------------------------------- one play(), then stop(), fair

\* One playback that the caller stops: the file is opened, looping is chosen,
\* play() is called once and stop() once after it.
PlayStopNext ==
    \/ ctl.calls = 0 /\ OpenFromFile
    \/ StopJoin
    \/ \E len \in Lengths, ch \in ChannelChoices : OpenFile(len, ch)
    \/ ctl.op = "openFromFile" /\ \E b \in BOOLEAN : SetLoop(b)
    \/ ctl.op = "openFromFile" /\ Play
    \/ PlayBranch
    \/ Launch
    \/ ctl.op = "play" /\ Stop
    \/ \E w \in Workers : ~crashed /\ WorkerStep(w)
    \/ ~crashed /\ VoiceFinishBuffer

\* The worker is scheduled and a call that was made runs on; the voice has
\* any pace.
PlayStopSpec ==
    /\ Init
    /\ [][PlayStopNext]_vars
    /\ WF_vars(\E w \in Workers : ~crashed /\ WorkerStep(w))
    /\ WF_vars(StopJoin \/ PlayBranch \/ Launch)

\* stop() has cleared m_isStreaming and waits for the worker.
StopWaits == ctl.op = "stop" /\ ctl.pc = "stop_join"

\* C18: for every file (one of no samples included) and either loop setting,
\* once stop() has cleared m_isStreaming the fairly scheduled worker exits and
\* stop() returns.
C18_StopReturns == StopWaits ~> ReturnedFrom("stop")

\* Worker w finishes a pass of its dequeue loop in which it has read a bit
\* depth of 0 for a buffer whose slot is not flagged as the end of the stream.
ReadsZeroBits(w) ==
    /\ thr[w].pc = "dequeue"
    /\ thr'[w] # thr[w]
    /\ thr'[w].bits = 0

DecoderTouched ==
    << file'.open, file'.len, file'.channels, file'.rate >>
        # << file.open, file.len, file.channels, file.rate >>

\* C20: the decoder handle is rebound, closed or destroyed only while no
\* worker is alive; and when the stream is destroyed, m_isStreaming is false,
\* no worker is alive and the thread handle is joined.
C20_DecoderTouchedWithoutWorker ==
    /\ [][DecoderTouched => LiveWorkers = {}]_vars
    /\ [](ctl.pc = "destroyed" =>
             /\ ~m_isStreaming
             /\ LiveWorkers = {}
             /\ m_thread = 0)

\* A file was opened on a stream that has been played and paused: the open
\* has returned with the file rebound.
C20_Witness ==
    /\ ReturnedFrom("openFromFile")
    /\ m_threadStartState = "Paused"
    /\ voice.state = "Stopped"
    /\ file.open

\* ---------------------------------------------------- Sound and Buffer only

SoundSpec == Init /\ [][SoundNext]_vars

\* C21: a sound is in a buffer's m_sounds if and only if the sound is alive
\* and its m_buffer is that buffer; no live sound points to a destroyed
\* buffer; and after a load that succeeded the buffer has exactly the sounds
\* it had before.
C21_BackReferences ==
    /\ \A s \in Sounds, b \in Buffers :
          s \in bufObj[b].m_sounds
             <=> (sndObj[s].live /\ sndObj[s].m_buffer = b)
    /\ \A s \in Sounds :
          (sndObj[s].live /\ sndObj[s].m_buffer # 0)
             => bufObj[sndObj[s].m_buffer].live
    /\ (soundOp.name = "load" /\ soundOp.ok)
          => bufObj[soundOp.b].m_sounds = soundOp.attached

\* A load has succeeded on a buffer that two sounds use.
C21_Witness ==
    /\ soundOp.name = "load"
    /\ soundOp.ok
    /\ Cardinality(soundOp.attached) = 2

\* ---------------------------------------------------- SoundFileFactory only

FactorySpec == Init /\ [][FactoryNext]_vars

\* The positions in s_readers of the factories whose check accepts the
\* content of the stream read from offset 0.
Accepting ==
    {i \in 1..Len(s_readers) : created.content \in Accepted(s_readers[i])}

\* C22: createReaderFromStream has tried the factories in the order of
\* s_readers, each check began at offset 0, the reader returned is that of
\* the first factory that accepts the stream and no later factory was tried;
\* no reader is returned if and only if no registered factory accepts it.
C22_FirstAcceptingReader ==
    created.valid =>
        /\ Len(created.tried) <= Len(s_readers)
        /\ \A k \in 1..Len(created.tried) :
              /\ created.tried[k].factory = s_readers[k]
              /\ created.tried[k].pos = 0
        /\ created.reader = "none" <=> Accepting = {}
        /\ Accepting = {} => Len(created.tried) = Len(s_readers)
        /\ Accepting # {} =>
              LET first == CHOOSE i \in Accepting : \A j \in Accepting : i <= j
              IN /\ created.reader = s_readers[first]
                 /\ Len(created.tried) = first

\* A stream that did not stand at its start was refused by the first factory
\* and accepted by the second, while a third that accepts it too was
\* registered after it.
C22_Witness ==
    /\ created.valid
    /\ created.from # 0
    /\ Len(created.tried) = 2
    /\ created.reader = s_readers[2]
    /\ Len(s_readers) = 3
    /\ created.content \in Accepted(s_readers[3])

\* ------------------------------------------- construction and destruction

\* Sounds and buffers are constructed, used and destroyed, and the Music
\* object that exists from the start is destroyed, in any order.
ResourceNext ==
    \/ SoundNext
    \/ DestroyMusic
    \/ StopJoin
    \/ DestroyFile
    \/ DestroyStream
    \/ DestroyJoin

ResourceSpec == Init /\ [][ResourceNext]_vars

\* How many objects with a Resource base exist: the sounds, the buffers and
\* the Music object.
LiveResourceCount ==
    Cardinality({s \in Sounds : sndObj[s].live})
    + Cardinality({b \in Buffers : bufObj[b].live})
    + (IF ctl.pc = "destroyed" THEN 0 ELSE 1)

\* C23: s_resourceCount is the number of live resources and the Device
\* exists if and only if that number is greater than 0; the Device is created
\* exactly by the step that takes the count from 0 to 1 and deleted exactly by
\* the step that takes it from 1 to 0.
C23_DeviceFollowsCount ==
    /\ [](/\ resource.count = LiveResourceCount
          /\ resource.instance <=> LiveResourceCount > 0)
    /\ [][/\ (~resource.instance /\ resource'.instance)
                <=> (resource.count = 0 /\ resource'.count = 1)
          /\ (resource.instance /\ ~resource'.instance)
                <=> (resource.count = 1 /\ resource'.count = 0)]_vars

\* A Device exists after an earlier one was deleted.
C23_Witness ==
    /\ resource.tornDown
    /\ resource.instance
    /\ resource.count = 2

\* Worker w takes a step from the named position.
StepsFrom(w, pc) == thr[w].pc = pc /\ thr'[w] # thr[w]

\* C24: when the worker in its main loop finds the voice stopped, it goes on
\* to play the voice again if no stop is pending and to end the stream if one
\* is; playing the voice again starts it (when a buffer is queued) and leaves
\* m_isStreaming and the pending stop as they are; and the worker ends the
\* stream from nowhere else than a stopped voice with a stop pending.
C24_UnderrunRestartsVoice ==
    [][\A w \in Workers :
          /\ StepsFrom(w, "chkstate") =>
                thr'[w].pc =
                   IF SourceGetState(voice) # "Stopped" THEN "nproc"
                   ELSE IF thr[w].requestStop THEN "endstream"
                   ELSE "restart"
          /\ StepsFrom(w, "restart") =>
                /\ Len(voice.queue) > 0 => voice'.state = "Playing"
                /\ voice'.queue = voice.queue
                /\ m_isStreaming' = m_isStreaming
                /\ thr'[w].requestStop = thr[w].requestStop
                /\ thr'[w].pc = "nproc"
          /\ (thr'[w].pc = "endstream" /\ thr[w].pc # "endstream") =>
                /\ thr[w].pc = "chkstate"
                /\ SourceGetState(voice) = "Stopped"
                /\ thr[w].requestStop]_vars

\* The worker is about to play the stopped voice again with all buffers
\* queued, after it has counted a buffer as processed.
C24_Witness ==
    \E w \in Workers :
        /\ thr[w].pc = "restart"
        /\ ~thr[w].requestStop
        /\ m_isStreaming
        /\ voice.state = "Stopped"
        /\ Len(voice.queue) = BufferCount
        /\ m_samplesProcessed > 0

\* ---------------------------------------------------------------------------
\* C25: the fill phase of a new worker (streamData 1909-1918, fillQueue
\* 2077-2088).

\* The worker's own steps: it clears every end-of-stream flag when it starts,
\* fills the slots in the order 0, 1, 2 and leaves the fill phase at the first
\* slot whose fill reports a pending stop.
FillPhaseInOrder ==
    \A w \in Workers :
        /\ (StepsFrom(w, "start") /\ thr'[w].pc # "done") =>
              /\ \A s \in Slots : ~m_endBuffers'[s]
              /\ thr'[w].inFill
              /\ thr'[w].bufferNum = 0
              /\ thr'[w].pc = "getdata"
              /\ voice' = voice
        /\ (StepsFrom(w, "push") /\ thr[w].inFill) =>
              IF thr[w].fillStop \/ thr[w].bufferNum = BufferCount - 1
              THEN /\ thr'[w].pc = "alplay"
                   /\ ~thr'[w].inFill
                   /\ thr'[w].requestStop = thr[w].fillStop
              ELSE /\ thr'[w].pc = "getdata"
                   /\ thr'[w].inFill
                   /\ thr'[w].bufferNum = thr[w].bufferNum + 1
        /\ (StepsFrom(w, "getdata") /\ thr[w].inFill) =>
              /\ thr'[w].bufferNum = thr[w].bufferNum
              /\ thr'[w].inFill

\* What the worker finds queued when it is about to call alSourcePlay: three
\* buffers unless a fill reported the end of a non-looping source earlier.
QueuedAtPlay ==
    \A w \in Workers : thr[w].pc = "alplay" =>
        /\ Len(voice.queue) <= BufferCount
        /\ ~thr[w].requestStop => Len(voice.queue) = BufferCount
        /\ Len(voice.queue) < BufferCount =>
              (thr[w].requestStop /\ file.pos >= file.len)

\* The voice is not started while a worker is still in its fill phase.
VoiceWaitsForFill ==
    \A w \in Workers : thr[w].inFill => voice.state \notin {"Playing", "Paused"}

\* C25: a new worker clears all end-of-stream flags, fills slots 0, 1, 2 in
\* order and stops at the first slot whose fill reports a pending stop; the
\* voice is started only after the fill phase, with three buffers queued
\* unless the non-looping source ended earlier.
C25_FillThenStart ==
    /\ [][FillPhaseInOrder]_vars
    /\ [](QueuedAtPlay)
    /\ [](VoiceWaitsForFill)

\* ---------------------------------------------------------------------------
\* C26: no empty buffer in the queue (fillAndPushBuffer 2029-2073).

\* A fill that got no sample: when looping it seeks to 0 and tries the same
\* slot again, otherwise it goes on to the upload, which is skipped.
ZeroSampleFill ==
    \A w \in Workers :
        /\ (StepsFrom(w, "getdata") /\ fileRead(file, m_samples) = 0) =>
              /\ voice' = voice
              /\ alBuf' = alBuf
              /\ thr'[w].bufferNum = thr[w].bufferNum
              /\ thr'[w].sampleCount = 0
              /\ IF m_loop
                 THEN /\ thr'[w].pc = "getdata"
                      /\ file.open => file'.pos = 0
                 ELSE /\ thr'[w].pc = "push"
                      /\ thr'[w].fillStop
        /\ (StepsFrom(w, "push") /\ thr[w].sampleCount = 0) =>
              /\ voice' = voice
              /\ alBuf' = alBuf

\* C26: every buffer in the queue holds at least one sample; a fill that got
\* zero samples enqueues nothing (not looping) or retries the same slot after
\* a seek to 0 (looping).
C26_NoEmptyBufferQueued ==
    /\ [](\A k \in 1..Len(voice.queue) :
             /\ alBuf[voice.queue[k]].live
             /\ alBuf[voice.queue[k]].size >= SampleBytes)
    /\ [][ZeroSampleFill]_vars

\* The fill of slot 1 got no sample and queued nothing: the worker leaves the
\* fill phase with the one buffer of slot 0 queued.
C26_Witness ==
    \E w \in Workers :
        /\ thr[w].pc = "alplay"
        /\ thr[w].requestStop
        /\ m_endBuffers[1] /\ ~m_endBuffers[0]
        /\ Len(voice.queue) = 1
        /\ alBuf[voice.queue[1]].size >= SampleBytes

\* ---------------------------------------------------------------------------
\* C27: the pending stop of a worker (streamData 2002-2008, fillQueue
\* 2077-2088).

\* The positions of a running worker, from its fill phase to the end of its
\* main loop.
InLoop(t) ==
    t.pc \in {"getdata", "push", "alplay", "pausechk", "looptop", "chkstate",
              "restart", "nproc", "dequeue", "endstream"}

\* C27: once a fill has reported the terminal buffer the worker's stop stays
\* pending whatever m_loop becomes: the worker is never again at onGetData or
\* at the upload, its steps neither read the file nor lengthen the queue, and
\* it ends the stream (m_isStreaming false) when it finds the voice stopped.
C27_PendingStopIsSticky ==
    /\ [](\A w \in Workers :
             thr[w].requestStop => thr[w].pc \notin {"getdata", "push"})
    /\ [][\A w \in Workers :
             (thr[w].requestStop /\ InLoop(thr[w]) /\ thr'[w] # thr[w]) =>
                /\ InLoop(thr'[w]) => thr'[w].requestStop
                /\ thr'[w].pc \notin {"getdata", "push", "restart"}
                /\ file' = file
                /\ Len(voice'.queue) <= Len(voice.queue)
                /\ (thr[w].pc = "chkstate" /\ SourceGetState(voice) = "Stopped")
                      => thr'[w].pc = "endstream"
                /\ thr[w].pc = "endstream" => ~m_isStreaming']_vars

\* setLoop(true) came after the terminal buffer was reported: the worker, with
\* its stop pending and the stream looping, takes a drained buffer off the
\* queue and is about to look at the voice again without having refilled.
C27_Witness ==
    \E w \in Workers :
        /\ thr[w].requestStop
        /\ m_loop
        /\ thr[w].pc = "looptop"
        /\ thr[w].bits = SampleBits
        /\ Len(voice.queue) < BufferCount
        /\ m_isStreaming

\* ---------------------------------------------------------------------------
\* C28: the requested state of a launched worker (streamData 1898-1907,
\* setPlayingOffset 1853-1858, play 1760-1764).

\* C28: whenever m_isStreaming is true the requested state is Playing or
\* Paused; a worker that has not yet passed the guard at its entry finds the
\* requested state Playing or Paused, so it never returns from the guard.
C28_NeverLaunchedStopped ==
    /\ [](m_isStreaming => m_threadStartState \in {"Playing", "Paused"})
    /\ [](\A w \in Workers :
             thr[w].pc = "start" => m_threadStartState \in {"Playing", "Paused"})
    /\ [][\A w \in Workers :
             StepsFrom(w, "start") =>
                (thr'[w].pc = "getdata" /\ m_isStreaming' = m_isStreaming)]_vars

\* setPlayingOffset on a paused stream has launched a worker into Paused; the
\* worker is at its entry guard.
C28_Witness ==
    \E w \in Workers :
        /\ thr[w].pc = "start"
        /\ m_isStreaming
        /\ m_threadStartState = "Paused"
        /\ ctl.op = "setPlayingOffset"

\* ---------------------------------------------------------------------------
\* C29: malformed WAV headers (parseHeader 2413-2508).

\* A reader constructed on any of the input streams.
WavInit ==
    /\ StreamInit
    /\ SoundIdle
    /\ resource = ResourceConstructor(NoResource)
    /\ FactoryIdle
    /\ wav \in {NewReaderWav(s) : s \in WavStreams}
    /\ inputFile = NewInputSoundFile
    /\ concurrent = ConcurrentIdle

WavSpec == WavInit /\ [][WavNext]_vars

\* C29: for every sequence of sub-chunks, parsing either succeeds with 1, 2,
\* 3 or 4 bytes per sample or returns failure; it never divides by zero
\* bytes per sample and never terminates the process.
C29_MalformedHeaderFailsCleanly ==
    /\ wav.result \in {"idle", "parsing", "ok", "failed"}
    /\ wav.result = "ok" => wav.m_bytesPerSample \in {1, 2, 3, 4}
    /\ (wav.result = "parsing" /\ wav.next <= Len(wav.stream.chunks)
          /\ wav.stream.chunks[wav.next].id = "data") => wav.m_bytesPerSample # 0

\* ---------------------------------------------------------------------------
\* C30: the position counter after a dequeue (streamData 1956-2008,
\* fillAndPushBuffer 2029-2073, onGetData 2183-2193).

\* The position of the file, in samples, at which the samples of the buffer
\* at the head of the queue start.
HeadStart(v) ==
    alBuf[Head(v.queue)].srcEnd - alBuf[Head(v.queue)].size \div SampleBytes

\* C30: in a playback started by play() with no later control call, whenever
\* the worker has taken a finished buffer off the queue and a buffer is left
\* in the queue, m_samplesProcessed is the position of the file at which the
\* buffer now at the head starts, modulo the length of the file when looping.
C30_CounterFollowsQueueHead ==
    [][\A w \in Workers :
          (/\ StepsFrom(w, "dequeue")
           /\ alCanUnqueue(voice)
           /\ file.len > 0
           /\ Len(voice'.queue) > 0) =>
             IF m_loop
             THEN m_samplesProcessed' % file.len = HeadStart(voice') % file.len
             ELSE m_samplesProcessed' = HeadStart(voice')]_vars

\* ---------------------------------------------------------------------------
\* C31: pause() against the worker (pause 1769-1782, streamData 1917-1950,
\* getState 1821-1835).

\* pause() has returned from a stream that is still streaming, and no other
\* call was made since.
PausedAndReturned ==
    /\ ReturnedFrom("pause")
    /\ m_isStreaming
    /\ m_threadStartState = "Paused"

\* C31: after pause() has returned while m_isStreaming is true, and until the
\* next call, the voice is not Playing and getState() does not report Playing,
\* wherever the worker stands.
C31_PauseIsEffective ==
    PausedAndReturned =>
        /\ voice.state # "Playing"
        /\ getState # "Playing"

\* ---------------------------------------------------------------------------
\* C32: the thread handle (play 1732-1765, stop 1786-1797, streamData
\* 1944-1949, emyl.h 497).

\* C32: when play() or setPlayingOffset() is about to assign a new thread to
\* m_thread, the handle refers to no thread that has not been joined, whether
\* that thread still runs or has ended on its own; the assignment never ends
\* the process.
C32_HandleJoinedBeforeLaunch ==
    /\ ctl.pc = "launch" => ~Joinable
    /\ ~crashed

\* ---------------------------------------------------------------------------
\* C33: stop() without a live worker (stop 1786-1803, openFromFile
\* 2125-2138).

\* The state stop() leaves: no streaming, counter 0, source at 0, no worker
\* and no thread to join.
StoppedEngine ==
    /\ ~m_isStreaming
    /\ m_samplesProcessed = 0
    /\ file.pos = 0
    /\ LiveWorkers = {}
    /\ m_thread = 0

\* A step of stop() itself, not of the stop() inside another operation.
StepOfStop ==
    /\ ctl' # ctl
    /\ \/ ctl.pc = "idle" /\ ctl'.pc = "stop_join" /\ ctl'.op = "stop"
       \/ ctl.pc = "stop_join" /\ ctl.op = "stop"

\* C33: with no live worker the join of stop() does not wait; stop() leaves
\* the engine stopped; and stop() on an engine that is stopped changes
\* nothing, the loop flag included.
C33_StopIsIdempotent ==
    /\ []((ctl.pc = "stop_join" /\ LiveWorkers = {} /\ ~crashed)
            => ENABLED StopJoin)
    /\ [](ReturnedFrom("stop") => StoppedEngine)
    /\ [][(StoppedEngine /\ StepOfStop) =>
            /\ StoppedEngine'
            /\ UNCHANGED << m_format, m_channelCount, m_sampleRate, m_loop,
                            m_samplesProcessed, m_isStreaming,
                            m_threadStartState, m_endBuffers, m_buffers,
                            m_thread, m_samples, file, voice, alBuf, thr,
                            crashed, selfEnded >>]_vars

\* A second stop() at its join: the stream of an open file was played and has
\* been stopped already.
C33_Witness ==
    /\ ctl.pc = "stop_join"
    /\ ctl.op = "stop"
    /\ StoppedEngine
    /\ file.open
    /\ m_threadStartState = "Playing"

\* ---------------------------------------------------------------------------
\* C34: failed opens of an InputSoundFile (openFromStream 1332-1367,
\* openFromFile 1256-1292, close 1424-1442).

InputFileSpec == Init /\ [][InputFileNext]_vars

\* The last call was an open and it returned false.
FailedOpen ==
    /\ inputFile.op \in {"openFromFile", "openFromMemory", "openFromStream"}
    /\ inputFile.ret = "false"

\* C34: every failed open leaves the file closed (no reader, no stream, and
\* sample count, channel count and sample rate 0), and a read that follows
\* returns 0 samples.
C34_FailedOpenLeavesClosed ==
    /\ [](FailedOpen =>
            /\ inputFile.m_reader = "none"
            /\ inputFile.m_stream = "none"
            /\ inputFile.m_sampleCount = 0
            /\ inputFile.m_channelCount = 0
            /\ inputFile.m_sampleRate = 0)
    /\ [][(FailedOpen /\ inputFile'.op = "read") =>
            (inputFile'.ret # "terminated" /\ inputFile'.got = 0)]_vars

\* ---------------------------------------------------------------------------
\* C35: resources constructed and destroyed by two threads (Resource
\* 385-410, Source::Source 689-693).

ConcurrentSpec == Init /\ [][ConcurrentNext]_vars

\* The resources whose constructor has returned and whose destructor has not
\* been entered.
LiveResources == concurrent.t[1].held + concurrent.t[2].held

\* C35: while a resource is live (its constructor has returned), the device
\* instance is set and that device exists; and no two devices exist at once.
C35_DeviceReadyForEveryResource ==
    /\ LiveResources > 0 =>
          /\ concurrent.instance # 0
          /\ concurrent.instance \in concurrent.devices
    /\ Cardinality(concurrent.devices) <= 1

\* ---------------------------------------------------------------------------
\* C36: the reader registry under registration (RegisterReader and
\* UnregisterReader, emyl.h 342-358; AddReader and RemoveReader 570-586).

\* The registry as format implementations use it: types are registered and
\* unregistered, and streams are detected.
RegistryNext ==
    \/ \E f \in ReaderKinds : RegisterReader(f)
    \/ \E f \in ReaderKinds : UnregisterReader(f)
    \/ \E c \in Contents, from \in StartOffsets : CreateReaderFromStream(c, from)

RegistrySpec == Init /\ [][RegistryNext]_vars

\* The entries of a registry other than those of type f, in their order, and
\* the number of entries of type f.
Without(readers, f) == SelectSeq(readers, LAMBDA x : x # f)

EntriesOf(readers, f) == Len(readers) - Len(Without(readers, f))

\* C36: the registry holds at most one entry of each reader type; a step that
\* changes it either leaves no entry of one type or leaves that type as the
\* single last entry, and in both cases keeps the entries of the other types
\* as they were, in their order.
C36_OneEntryPerReaderType ==
    /\ [](\A f \in ReaderKinds : EntriesOf(s_readers, f) <= 1)
    /\ [][s_readers' # s_readers =>
            \E f \in ReaderKinds :
               /\ Without(s_readers', f) = Without(s_readers, f)
               /\ \/ EntriesOf(s_readers', f) = 0
                  \/ /\ EntriesOf(s_readers', f) = 1
                     /\ s_readers'[Len(s_readers')] = f]_vars

\* The type registered first at start was registered again and now stands
\* last, once; a stream of its format is still detected.
C36_Witness ==
    /\ s_readers = << "ogg", "wav" >>
    /\ created.valid
    /\ created.reader = "wav"

====
